---- MODULE Spec2Model ----
(***************************************************************************)
(* The shed index layer (package shed, index.go) over an ordered key/value *)
(* store: Item, Merge, Index.{Get,Fill,Has,HasMulti,Put,PutInBatch,Delete, *)
(* DeleteInBatch,Iterate,First,Last,Count,CountFrom}, incByteSlice.  The   *)
(* database facade (db.Get, db.Put, ...) and the transactions of the       *)
(* engine are not part of the source tree and are modelled after sections  *)
(* 4.2 and 5 of the specification.  The last sections model package       *)
(* trojan (handler.go): Registry.{AddDecoder,AddHandlers,Process} and      *)
(* Miner.Run with its goroutines.                                          *)
(***************************************************************************)
EXTENDS Integers, Sequences, FiniteSets, TLC

VARIABLES db, batch, it, txn, last, nPut, nDel

\* package trojan: the Registry, the invocations its Process has made, and one
\* Miner with the goroutines, channels and context of its Run
VARIABLES decoders, handlers, calls, targets, pc, mineC, doneC, ctx, run

shedVars == <<db, batch, it, txn, last, nPut, nDel>>

trojanVars == <<decoders, handlers, calls, targets, pc, mineC, doneC, ctx, run>>

vars == <<shedVars, trojanVars>>

(***************************************************************************)
(* Bounds of the model.                                                    *)
(***************************************************************************)
\* largest number of key/value pairs the store holds
MaxEntries == 2
\* largest number of writes accumulated in one batch
MaxBatch == 2
\* largest number of writes accumulated in one batch where the reads of every
\* index are compared before and after each write
MaxBatchIsolation == 1
\* largest number of counted Put/Delete operations on the fresh store
MaxOps == 3

(***************************************************************************)
(* Byte slices.  A []byte field of an Item is Nil or Some(b).              *)
(***************************************************************************)
Nil == <<>>

Some(b) == <<b>>

\* bytes.Compare(a, b) < 0
RECURSIVE BytesLess(_, _)
BytesLess(a, b) ==
    IF b = <<>> THEN FALSE
    ELSE IF a = <<>> THEN TRUE
    ELSE IF a[1] # b[1] THEN a[1] < b[1]
    ELSE BytesLess(Tail(a), Tail(b))

BytesLeq(a, b) == a = b \/ BytesLess(a, b)

\* bytes.HasPrefix(s, p)
HasPrefix(s, p) == Len(p) <= Len(s) /\ SubSeq(s, 1, Len(p)) = p

\* the keys of S in ascending byte order
RECURSIVE SortedKeys(_)
SortedKeys(S) ==
    IF S = {} THEN <<>>
    ELSE LET m == CHOOSE k \in S : \A o \in S : BytesLeq(k, o)
         IN  <<m>> \o SortedKeys(S \ {m})

(***************************************************************************)
(* Errors.                                                                 *)
(***************************************************************************)
NoErr == "nil"

ErrNotFound == "shed.ErrNotFound"

ErrKeyNotFound == "badger.ErrKeyNotFound"

ErrCodecEncode == "CodecEncode"

ErrCodecDecode == "CodecDecode"

ErrCallback == "callback error"

\* the error a decoder of index I returns: the codecs are the caller's, and
\* the decoders of index 2 fail with an error of the engine
DecodeErr(I) == IF I = 2 THEN ErrKeyNotFound ELSE ErrCodecDecode

(***************************************************************************)
(* Item and Merge.                                                         *)
(***************************************************************************)
ZeroItem ==
    [Address |-> Nil, Data |-> Nil, AccessTimestamp |-> 0, StoreTimestamp |-> 0,
     BinID |-> 0, PinCounter |-> 0, Tag |-> 0]

\* a Merge in which the non-zero fields of the argument win
MergeArgWins(i, i2) ==
    [Address         |-> IF i2.Address = Nil THEN i.Address ELSE i2.Address,
     Data            |-> IF i2.Data = Nil THEN i.Data ELSE i2.Data,
     AccessTimestamp |-> IF i2.AccessTimestamp = 0 THEN i.AccessTimestamp ELSE i2.AccessTimestamp,
     StoreTimestamp  |-> IF i2.StoreTimestamp = 0 THEN i.StoreTimestamp ELSE i2.StoreTimestamp,
     BinID           |-> IF i2.BinID = 0 THEN i.BinID ELSE i2.BinID,
     PinCounter      |-> IF i2.PinCounter = 0 THEN i.PinCounter ELSE i2.PinCounter,
     Tag             |-> IF i2.Tag = 0 THEN i.Tag ELSE i2.Tag]

\* Item.Merge: i is the receiver
Merge(i, i2) ==
    [Address         |-> IF i.Address = Nil THEN i2.Address ELSE i.Address,
     Data            |-> IF i.Data = Nil THEN i2.Data ELSE i.Data,
     AccessTimestamp |-> IF i.AccessTimestamp = 0 THEN i2.AccessTimestamp ELSE i.AccessTimestamp,
     StoreTimestamp  |-> IF i.StoreTimestamp = 0 THEN i2.StoreTimestamp ELSE i.StoreTimestamp,
     BinID           |-> IF i.BinID = 0 THEN i2.BinID ELSE i.BinID,
     PinCounter      |-> IF i.PinCounter = 0 THEN i2.PinCounter ELSE i.PinCounter,
     Tag             |-> IF i.Tag = 0 THEN i2.Tag ELSE i.Tag]

(***************************************************************************)
(* The registered indexes, named by their prefix byte, and the inputs.     *)
(***************************************************************************)
Indexes == {1, 2, 255}

\* Index.prefix
IndexPrefix(I) == <<I>>

Addrs == {<<1>>, <<1, 255>>, <<255>>}

\* the Items whose key and value encoders succeed
ValidItems ==
    {[ZeroItem EXCEPT !.Address = Some(a), !.Data = Some(<<7>>),
                      !.StoreTimestamp = f[1], !.AccessTimestamp = f[2]] :
        a \in Addrs, f \in {<<0, 0>>, <<1, 3>>}}

\* the Items handed to Put: the valid ones, one with no address and one with
\* no data
Items ==
    ValidItems \cup {[ZeroItem EXCEPT !.Data = Some(<<7>>)],
                     [ZeroItem EXCEPT !.Address = Some(<<1>>)]}

\* the Items that carry key fields only
KeyItems == {[ZeroItem EXCEPT !.Address = a] : a \in {Nil} \cup {Some(x) : x \in Addrs}}

\* the Items handed to Get: key fields, alone or with fields no key codec
\* reads, one of them a store timestamp that no stored value holds
QueryItems ==
    {[ZeroItem EXCEPT !.Address = a, !.StoreTimestamp = f[1], !.AccessTimestamp = f[2]] :
        a \in {Nil} \cup {Some(x) : x \in Addrs}, f \in {<<0, 0>>, <<2, 3>>}}

\* the common key prefixes handed to Iterate, First and Last (<<>> is nil)
KeyPrefixes == {<<>>, <<1>>, <<255>>}

(***************************************************************************)
(* The codecs of the indexes (IndexFuncs): key = address,                  *)
(* value = data || store timestamp.  The index ShortKeyIndex keeps the     *)
(* first byte of the address as its key and the whole address in its       *)
(* value, so its key decoder and its value decoder both set Address.       *)
(***************************************************************************)
ShortKeyIndex == 3

EncodeKey(I, e) ==
    IF e.Address = Nil
    THEN [key |-> <<>>, err |-> ErrCodecEncode]
    ELSE IF I = ShortKeyIndex
    THEN [key |-> <<Head(e.Address[1])>>, err |-> NoErr]
    ELSE [key |-> e.Address[1], err |-> NoErr]

DecodeKey(I, key) ==
    IF Len(key) < 1
    THEN [item |-> ZeroItem, err |-> DecodeErr(I)]
    ELSE [item |-> [ZeroItem EXCEPT !.Address = Some(key)], err |-> NoErr]

EncodeValue(I, e) ==
    IF I = ShortKeyIndex
    THEN IF e.Address = Nil
         THEN [value |-> <<>>, err |-> ErrCodecEncode]
         ELSE [value |-> e.Address[1] \o <<e.StoreTimestamp>>, err |-> NoErr]
    ELSE IF e.Data = Nil
    THEN [value |-> <<>>, err |-> ErrCodecEncode]
    ELSE [value |-> e.Data[1] \o <<e.StoreTimestamp>>, err |-> NoErr]

DecodeValue(I, keyItem, value) ==
    IF Len(value) < 1
    THEN [item |-> ZeroItem, err |-> DecodeErr(I)]
    ELSE IF I = ShortKeyIndex
    THEN [item |-> [ZeroItem EXCEPT
                      !.StoreTimestamp = value[Len(value)],
                      !.Address = Some(SubSeq(value, 1, Len(value) - 1))],
          err |-> NoErr]
    ELSE [item |-> [ZeroItem EXCEPT
                      !.StoreTimestamp = value[Len(value)],
                      !.Data = Some(SubSeq(value, 1, Len(value) - 1))],
          err |-> NoErr]

\* the fields of e the key codec commits to
KeyFieldsOf(e) == [ZeroItem EXCEPT !.Address = e.Address]

(***************************************************************************)
(* NewIndex: the key functions of an Index.                                *)
(***************************************************************************)
\* an encodeKeyFunc that hands the codec key to the database as it is
encodeKeyFuncNoPrefix(I, e) == EncodeKey(I, e)

encodeKeyFunc(I, e) ==
    LET r == EncodeKey(I, e)
    IN  IF r.err # NoErr
        THEN [key |-> <<>>, err |-> r.err]
        ELSE [key |-> IndexPrefix(I) \o r.key, err |-> NoErr]

decodeKeyFunc(I, key) == DecodeKey(I, Tail(key))

(***************************************************************************)
(* The database facade over the ordered key/value engine.  A store d is a  *)
(* function from keys to values.                                           *)
(***************************************************************************)
EmptyStore == [k \in {} |-> <<>>]

dbGet(d, key) ==
    IF key \in DOMAIN d
    THEN [value |-> d[key], err |-> NoErr]
    ELSE [value |-> <<>>, err |-> ErrNotFound]

dbHas(d, key) == key \in DOMAIN d

dbPut(d, key, value) ==
    [k \in DOMAIN d \cup {key} |-> IF k = key THEN value ELSE d[k]]

dbDelete(d, key) == [k \in DOMAIN d \ {key} |-> d[k]]

\* iterator.Seek(key): the smallest stored key >= key, <<>> when not Valid()
dbSeek(d, key) ==
    LET ge == {k \in DOMAIN d : BytesLeq(key, k)}
    IN  IF ge = {} THEN <<>> ELSE CHOOSE k \in ge : \A o \in ge : BytesLeq(k, o)

\* the keys db.Iterate(startKey, skipStartKey, fn) hands to fn, in order
dbIterate(d, startKey, skipStartKey) ==
    SortedKeys({k \in DOMAIN d :
                  /\ BytesLeq(startKey, k)
                  /\ ~(skipStartKey /\ k = startKey)})

dbFirst(d, prefix) ==
    LET in == {k \in DOMAIN d : HasPrefix(k, prefix)}
    IN  IF in = {}
        THEN [key |-> <<>>, value |-> <<>>, err |-> ErrNotFound]
        ELSE LET k == CHOOSE x \in in : \A o \in in : BytesLeq(x, o)
             IN  [key |-> k, value |-> d[k], err |-> NoErr]

\* an incByteSlice that increments the last byte only
incByteSliceLastOnly(b) ==
    IF b = <<>> \/ b[Len(b)] = 255 THEN <<>>
    ELSE [i \in 1..Len(b) |-> IF i = Len(b) THEN b[i] + 1 ELSE b[i]]

\* an incByteSlice that leaves the bytes after the incremented one as they are
incByteSliceNoCarry(b) ==
    LET nonFF == {i \in 1..Len(b) : b[i] # 255}
    IN  IF nonFF = {} THEN <<>>
        ELSE LET j == CHOOSE x \in nonFF : \A y \in nonFF : y <= x
             IN  [i \in 1..Len(b) |-> IF i = j THEN b[i] + 1 ELSE b[i]]

\* incByteSlice(b); <<>> is the nil slice
incByteSlice(b) ==
    LET nonFF == {i \in 1..Len(b) : b[i] # 255}
    IN  IF nonFF = {} THEN <<>>
        ELSE LET j == CHOOSE x \in nonFF : \A y \in nonFF : y <= x
             IN  [i \in 1..Len(b) |->
                    IF i < j THEN b[i] ELSE IF i = j THEN b[i] + 1 ELSE 0]

\* seek to the successor of prefix and step one back, or go to the end
dbLast(d, prefix) ==
    LET next == incByteSlice(prefix)
        below == IF next = <<>> THEN DOMAIN d
                 ELSE {k \in DOMAIN d : BytesLess(k, next)}
    IN  IF below = {}
        THEN [key |-> <<>>, value |-> <<>>, err |-> ErrNotFound]
        ELSE LET k == CHOOSE x \in below : \A o \in below : BytesLeq(o, x)
             IN  IF HasPrefix(k, prefix)
                 THEN [key |-> k, value |-> d[k], err |-> NoErr]
                 ELSE [key |-> <<>>, value |-> <<>>, err |-> ErrNotFound]

dbCountPrefix(d, prefix) == Cardinality({k \in DOMAIN d : HasPrefix(k, prefix)})

dbCountFrom(d, startKey) == Cardinality({k \in DOMAIN d : BytesLeq(startKey, k)})

(***************************************************************************)
(* The Index operations, as functions of the store they read.              *)
(***************************************************************************)
\* a Get that returns the decoded value without merging the key fields
GetOpNoMerge(I, d, keyFields) ==
    LET k == encodeKeyFunc(I, keyFields)
    IN  IF k.err # NoErr THEN [out |-> ZeroItem, err |-> k.err]
        ELSE LET v == dbGet(d, k.key)
             IN  IF v.err # NoErr THEN [out |-> ZeroItem, err |-> v.err]
                 ELSE LET o == DecodeValue(I, keyFields, v.value)
                      IN  [out |-> o.item, err |-> o.err]

\* a Get in which the key fields of the caller win over the decoded value
GetOpKeyFieldsWin(I, d, keyFields) ==
    LET k == encodeKeyFunc(I, keyFields)
    IN  IF k.err # NoErr THEN [out |-> ZeroItem, err |-> k.err]
        ELSE LET v == dbGet(d, k.key)
             IN  IF v.err # NoErr THEN [out |-> ZeroItem, err |-> v.err]
                 ELSE LET o == DecodeValue(I, keyFields, v.value)
                      IN  IF o.err # NoErr THEN [out |-> o.item, err |-> o.err]
                          ELSE [out |-> Merge(keyFields, o.item), err |-> NoErr]

\* Index.Get
GetOp(I, d, keyFields) ==
    LET k == encodeKeyFunc(I, keyFields)
    IN  IF k.err # NoErr THEN [out |-> ZeroItem, err |-> k.err]
        ELSE LET v == dbGet(d, k.key)
             IN  IF v.err # NoErr THEN [out |-> ZeroItem, err |-> v.err]
                 ELSE LET o == DecodeValue(I, keyFields, v.value)
                      IN  IF o.err # NoErr THEN [out |-> o.item, err |-> o.err]
                          ELSE [out |-> Merge(o.item, keyFields), err |-> NoErr]

\* Index.Has
HasOp(I, d, keyFields) ==
    LET k == encodeKeyFunc(I, keyFields)
    IN  IF k.err # NoErr THEN [has |-> FALSE, err |-> k.err]
        ELSE [has |-> dbHas(d, k.key), err |-> NoErr]

\* Index.HasMulti: one Seek per item
RECURSIVE HasMultiFrom(_, _, _, _)
HasMultiFrom(I, d, items, have) ==
    IF items = <<>> THEN [have |-> have, err |-> NoErr]
    ELSE LET k == encodeKeyFunc(I, Head(items))
         IN  IF k.err # NoErr THEN [have |-> <<>>, err |-> k.err]
             ELSE LET at == dbSeek(d, k.key)
                  IN  HasMultiFrom(I, d, Tail(items),
                                   Append(have, at # <<>> /\ at = k.key))

HasMultiOp(I, d, items) == HasMultiFrom(I, d, items, <<>>)

\* an itemFromKeyValue that returns the value Item without the key Item
itemFromKeyValueValueOnly(I, key, value, totalPrefix) ==
    IF ~HasPrefix(key, totalPrefix) THEN [item |-> ZeroItem, err |-> ErrKeyNotFound]
    ELSE LET ki == decodeKeyFunc(I, key)
         IN  IF ki.err # NoErr THEN [item |-> ZeroItem, err |-> ki.err]
             ELSE LET vi == DecodeValue(I, ki.item, value)
                  IN  IF vi.err # NoErr THEN [item |-> ZeroItem, err |-> vi.err]
                      ELSE [item |-> vi.item, err |-> NoErr]

\* Index.itemFromKeyValue
itemFromKeyValue(I, key, value, totalPrefix) ==
    IF ~HasPrefix(key, totalPrefix) THEN [item |-> ZeroItem, err |-> ErrKeyNotFound]
    ELSE LET ki == decodeKeyFunc(I, key)
         IN  IF ki.err # NoErr THEN [item |-> ZeroItem, err |-> ki.err]
             ELSE LET vi == DecodeValue(I, ki.item, value)
                  IN  IF vi.err # NoErr THEN [item |-> ZeroItem, err |-> vi.err]
                      ELSE [item |-> Merge(ki.item, vi.item), err |-> NoErr]

\* a First that does not return the error of db.First
FirstOpDropsErr(I, d, prefix) ==
    LET totalPrefix == IndexPrefix(I) \o prefix
        r == dbFirst(d, totalPrefix)
        x == itemFromKeyValue(I, r.key, r.value, totalPrefix)
    IN  [out |-> x.item, err |-> x.err]

\* Index.First
FirstOp(I, d, prefix) ==
    LET totalPrefix == IndexPrefix(I) \o prefix
        r == dbFirst(d, totalPrefix)
    IN  IF r.err # NoErr THEN [out |-> ZeroItem, err |-> r.err]
        ELSE LET x == itemFromKeyValue(I, r.key, r.value, totalPrefix)
             IN  [out |-> x.item, err |-> x.err]

\* Index.Last
LastOp(I, d, prefix) ==
    LET totalPrefix == IndexPrefix(I) \o prefix
        r == dbLast(d, totalPrefix)
    IN  IF r.err # NoErr THEN [out |-> ZeroItem, err |-> r.err]
        ELSE LET x == itemFromKeyValue(I, r.key, r.value, totalPrefix)
             IN  [out |-> x.item, err |-> x.err]

\* Index.Count
CountOp(I, d) == dbCountPrefix(d, IndexPrefix(I))

\* Index.CountFrom
CountFromOp(I, d, start) ==
    LET k == encodeKeyFunc(I, start)
    IN  IF k.err # NoErr THEN [count |-> 0, err |-> k.err]
        ELSE [count |-> dbCountFrom(d, k.key), err |-> NoErr]

\* a Put that leaves the value of a key that is already stored
PutOpKeepsFirst(I, d, i) ==
    LET k == encodeKeyFunc(I, i)
        v == EncodeValue(I, i)
    IN  IF k.err # NoErr THEN [db |-> d, err |-> k.err]
        ELSE IF v.err # NoErr THEN [db |-> d, err |-> v.err]
        ELSE IF dbHas(d, k.key) THEN [db |-> d, err |-> NoErr]
        ELSE [db |-> dbPut(d, k.key, v.value), err |-> NoErr]

\* what Index.Put hands to the database: the new store and the error
PutOp(I, d, i) ==
    LET k == encodeKeyFunc(I, i)
        v == EncodeValue(I, i)
    IN  IF k.err # NoErr THEN [db |-> d, err |-> k.err]
        ELSE IF v.err # NoErr THEN [db |-> d, err |-> v.err]
        ELSE [db |-> dbPut(d, k.key, v.value), err |-> NoErr]

\* a Delete that hands the codec key to the database without the index prefix
DeleteOpNoPrefix(I, d, keyFields) ==
    LET k == EncodeKey(I, keyFields)
    IN  IF k.err # NoErr THEN [db |-> d, err |-> k.err]
        ELSE [db |-> dbDelete(d, k.key), err |-> NoErr]

\* a Delete that removes every key that starts with the encoded key
DeleteOpByPrefix(I, d, keyFields) ==
    LET k == encodeKeyFunc(I, keyFields)
    IN  IF k.err # NoErr THEN [db |-> d, err |-> k.err]
        ELSE [db |-> [x \in {y \in DOMAIN d : ~HasPrefix(y, k.key)} |-> d[x]],
              err |-> NoErr]

\* Index.Delete
DeleteOp(I, d, keyFields) ==
    LET k == encodeKeyFunc(I, keyFields)
    IN  IF k.err # NoErr THEN [db |-> d, err |-> k.err]
        ELSE [db |-> dbDelete(d, k.key), err |-> NoErr]

(***************************************************************************)
(* State: db is the committed store, batch the open write transaction, it  *)
(* the Iterate call in progress, last the last completed call with its     *)
(* arguments and results (none while a call runs), nPut and nDel the       *)
(* committed Puts and Deletes of each index.                               *)
(***************************************************************************)
\* items, res and bufs are set by the calls that take a list of Items
Call(op, I, item, p, out, n, has, err) ==
    [op |-> op, idx |-> I, item |-> item, p |-> p, out |-> out, n |-> n,
     has |-> has, err |-> err, items |-> <<>>, res |-> <<>>, bufs |-> <<>>]

NoCall == Call("none", 0, ZeroItem, <<>>, ZeroItem, 0, FALSE, NoErr)

NoBatch == [open |-> FALSE, writes |-> EmptyStore]

NoOptions == [StartFrom |-> Nil, SkipStartFromItem |-> FALSE, Prefix |-> <<>>]

\* calls is the log of the callback invocations: the key decoded, the Item
\* handed to fn and what fn returned
NoIterate ==
    [state |-> "idle", idx |-> 0, opts |-> NoOptions, prefix |-> <<>>,
     snap |-> EmptyStore, keys |-> <<>>, calls |-> <<>>, err |-> NoErr]

\* the Fill or HasMulti call in progress: its read transaction (snap), the
\* slice it was handed (orig), the slice as it is now (items), the position
\* of the loop (pos), the result of HasMulti (have) and the owners of the
\* buffers handed to the value decoder (bufs)
\* the topics of the trojan envelopes (Topic, cut to its first byte)
Topics == {1, 2}

\* NewRegistry: no handler for any topic
NoHandlers == [t \in Topics |-> <<>>]

\* swarm.Chunk: a nil chunk
NoChunk == [addr |-> <<>>, data |-> <<>>]

\* Miner.Run has not been called
NoRun == [state |-> "idle", payload |-> <<>>, ch |-> NoChunk, err |-> NoErr]

NoTxn ==
    [state |-> "idle", op |-> "none", idx |-> 0, snap |-> EmptyStore,
     orig |-> <<>>, items |-> <<>>, pos |-> 0, have |-> <<>>, bufs |-> <<>>,
     err |-> NoErr]

\* a database with no entry, no batch, no iterator and no transaction
InitShed ==
    /\ db = EmptyStore
    /\ batch = NoBatch
    /\ it = NoIterate
    /\ txn = NoTxn
    /\ nPut = [I \in Indexes |-> 0]
    /\ nDel = [I \in Indexes |-> 0]

\* NewRegistry() and a Miner whose Run has not been called
InitTrojan ==
    /\ decoders = <<>>
    /\ handlers = NoHandlers
    /\ calls = <<>>
    /\ targets = <<>>
    /\ pc = <<>>
    /\ mineC = <<>>
    /\ doneC = "nil"
    /\ ctx = "live"
    /\ run = NoRun

Init ==
    /\ InitShed
    /\ InitTrojan
    /\ last = NoCall

\* the store never grows beyond MaxEntries pairs
Fits(d) == Cardinality(DOMAIN d) <= MaxEntries

PutStep(I, i) ==
    LET r == PutOp(I, db, i)
    IN  /\ Fits(r.db)
        /\ db' = r.db
        /\ last' = Call("Put", I, i, <<>>, ZeroItem, 0, FALSE, r.err)
        /\ UNCHANGED <<batch, it, txn, trojanVars>>

DeleteStep(I, i) ==
    LET r == DeleteOp(I, db, i)
    IN  /\ db' = r.db
        /\ last' = Call("Delete", I, i, <<>>, ZeroItem, 0, FALSE, r.err)
        /\ UNCHANGED <<batch, it, txn, trojanVars>>

Put(I, i) == PutStep(I, i) /\ UNCHANGED <<nPut, nDel>>

Delete(I, i) == DeleteStep(I, i) /\ UNCHANGED <<nPut, nDel>>

Get(I, i) ==
    LET r == GetOp(I, db, i)
    IN  /\ last' = Call("Get", I, i, <<>>, r.out, 0, FALSE, r.err)
        /\ UNCHANGED <<db, batch, it, txn, nPut, nDel, trojanVars>>

Has(I, i) ==
    LET r == HasOp(I, db, i)
    IN  /\ last' = Call("Has", I, i, <<>>, ZeroItem, 0, r.has, r.err)
        /\ UNCHANGED <<db, batch, it, txn, nPut, nDel, trojanVars>>

First(I, p) ==
    LET r == FirstOp(I, db, p)
    IN  /\ last' = Call("First", I, ZeroItem, p, r.out, 0, FALSE, r.err)
        /\ UNCHANGED <<db, batch, it, txn, nPut, nDel, trojanVars>>

Last(I, p) ==
    LET r == LastOp(I, db, p)
    IN  /\ last' = Call("Last", I, ZeroItem, p, r.out, 0, FALSE, r.err)
        /\ UNCHANGED <<db, batch, it, txn, nPut, nDel, trojanVars>>

Count(I) ==
    /\ last' = Call("Count", I, ZeroItem, <<>>, ZeroItem, CountOp(I, db), FALSE, NoErr)
    /\ UNCHANGED <<db, batch, it, txn, nPut, nDel, trojanVars>>

CountFrom(I, i) ==
    LET r == CountFromOp(I, db, i)
    IN  /\ last' = Call("CountFrom", I, i, <<>>, ZeroItem, r.count, FALSE, r.err)
        /\ UNCHANGED <<db, batch, it, txn, nPut, nDel, trojanVars>>

Next ==
    \/ \E I \in Indexes, i \in Items : Put(I, i)
    \/ \E I \in Indexes, i \in KeyItems : Delete(I, i)
    \/ \E I \in Indexes, i \in QueryItems : Get(I, i)
    \/ \E I \in Indexes, i \in KeyItems : Has(I, i)
    \/ \E I \in Indexes, p \in KeyPrefixes : First(I, p)
    \/ \E I \in Indexes, p \in KeyPrefixes : Last(I, p)
    \/ \E I \in Indexes : Count(I)
    \/ \E I \in Indexes, i \in KeyItems : CountFrom(I, i)

Spec == Init /\ [][Next]_vars

(***************************************************************************)
(* Index.Iterate.  IterateBegin computes the scan prefix and the start key *)
(* and opens db.Iterate on a snapshot; each IterateStep is one turn of the *)
(* loop of db.Iterate, which calls the closure of Index.Iterate on the     *)
(* next key; IterateReturn hands the result to the caller.                 *)
(***************************************************************************)
IterOptions ==
    [StartFrom : {Nil} \cup {Some(i) : i \in KeyItems},
     SkipStartFromItem : BOOLEAN,
     Prefix : KeyPrefixes]

\* what an IndexIterFunc may return
CallbackResults == [stop : BOOLEAN, err : {NoErr, ErrCallback}]

\* an Iterate that starts from the scan prefix whatever StartFrom is
IterateStartFromPrefix(I, o) ==
    [prefix |-> IndexPrefix(I) \o o.Prefix, startKey |-> IndexPrefix(I) \o o.Prefix,
     err |-> NoErr]

\* prefix and startKey of Index.Iterate
IterateStart(I, o) ==
    LET prefix == IndexPrefix(I) \o o.Prefix
    IN  IF o.StartFrom = Nil
        THEN [prefix |-> prefix, startKey |-> prefix, err |-> NoErr]
        ELSE LET k == encodeKeyFunc(I, o.StartFrom[1])
             IN  [prefix |-> prefix, startKey |-> k.key, err |-> k.err]

\* a closure that hands the stop of fn to db.Iterate, and not its error
iterateFnDropsErr(I, key, value, prefix, cb) ==
    LET x == itemFromKeyValue(I, key, value, prefix)
    IN  IF x.err # NoErr
        THEN IF x.err = ErrKeyNotFound
             THEN [called |-> FALSE, item |-> ZeroItem, stop |-> TRUE, err |-> NoErr]
             ELSE [called |-> FALSE, item |-> ZeroItem, stop |-> FALSE, err |-> x.err]
        ELSE [called |-> TRUE, item |-> x.item, stop |-> cb.stop, err |-> NoErr]

\* a closure that calls fn on every key db.Iterate hands to it
iterateFnNoPrefixCheck(I, key, value, prefix, cb) ==
    LET x == itemFromKeyValue(I, key, value, <<>>)
    IN  [called |-> TRUE, item |-> x.item, stop |-> cb.stop, err |-> cb.err]

\* a closure that ends the iteration after the first call of fn
iterateFnStopsAfterCall(I, key, value, prefix, cb) ==
    LET x == itemFromKeyValue(I, key, value, prefix)
    IN  IF x.err # NoErr
        THEN IF x.err = ErrKeyNotFound
             THEN [called |-> FALSE, item |-> ZeroItem, stop |-> TRUE, err |-> NoErr]
             ELSE [called |-> FALSE, item |-> ZeroItem, stop |-> FALSE, err |-> x.err]
        ELSE [called |-> TRUE, item |-> x.item, stop |-> TRUE, err |-> cb.err]

\* the closure Index.Iterate hands to db.Iterate; cb is what fn returns if
\* it is called
iterateFn(I, key, value, prefix, cb) ==
    LET x == itemFromKeyValue(I, key, value, prefix)
    IN  IF x.err # NoErr
        THEN IF x.err = ErrKeyNotFound
             THEN [called |-> FALSE, item |-> ZeroItem, stop |-> TRUE, err |-> NoErr]
             ELSE [called |-> FALSE, item |-> ZeroItem, stop |-> FALSE, err |-> x.err]
        ELSE [called |-> TRUE, item |-> x.item, stop |-> cb.stop, err |-> cb.err]

\* db.Iterate after a call of its fn: the first error wins, a stop ends the
\* iteration with no error
dbIterateAfter(r) ==
    IF r.err # NoErr THEN [done |-> TRUE, err |-> r.err]
    ELSE IF r.stop THEN [done |-> TRUE, err |-> NoErr]
    ELSE [done |-> FALSE, err |-> NoErr]

IterateBegin(I, o) ==
    LET s == IterateStart(I, o)
    IN  /\ it.state = "idle"
        /\ it' = IF s.err # NoErr
                 THEN [NoIterate EXCEPT !.state = "done", !.idx = I, !.opts = o,
                                        !.prefix = s.prefix, !.err = s.err]
                 ELSE [NoIterate EXCEPT !.state = "running", !.idx = I, !.opts = o,
                                        !.prefix = s.prefix, !.snap = db,
                                        !.keys = dbIterate(db, s.startKey,
                                                           o.SkipStartFromItem)]
        /\ last' = NoCall
        /\ UNCHANGED <<db, batch, txn, nPut, nDel, trojanVars>>

IterateStep(cb) ==
    /\ it.state = "running"
    /\ IF it.keys = <<>>
       THEN /\ cb = [stop |-> FALSE, err |-> NoErr]
            /\ it' = [it EXCEPT !.state = "done", !.err = NoErr]
       ELSE LET key == Head(it.keys)
                r == iterateFn(it.idx, key, it.snap[key], it.prefix, cb)
                a == dbIterateAfter(r)
            IN  /\ r.called \/ cb = [stop |-> FALSE, err |-> NoErr]
                /\ it' = [it EXCEPT
                            !.state = IF a.done THEN "done" ELSE "running",
                            !.keys = Tail(it.keys),
                            !.calls = IF r.called
                                      THEN Append(@, [key |-> key, item |-> r.item,
                                                      stop |-> cb.stop, err |-> cb.err])
                                      ELSE @,
                            !.err = a.err]
    /\ UNCHANGED <<db, batch, txn, last, nPut, nDel, trojanVars>>

IterateReturn ==
    /\ it.state = "done"
    /\ it' = NoIterate
    /\ last' = Call("Iterate", it.idx, ZeroItem, it.opts.Prefix, ZeroItem,
                    Len(it.calls), FALSE, it.err)
    /\ UNCHANGED <<db, batch, txn, nPut, nDel, trojanVars>>

\* the Items and the error of a whole Iterate whose fn never stops
RECURSIVE IterateRest(_, _, _, _, _)
IterateRest(I, d, prefix, keys, items) ==
    IF keys = <<>> THEN [items |-> items, err |-> NoErr]
    ELSE LET r == iterateFn(I, Head(keys), d[Head(keys)], prefix,
                            [stop |-> FALSE, err |-> NoErr])
             a == dbIterateAfter(r)
         IN  IF a.done THEN [items |-> items, err |-> a.err]
             ELSE IterateRest(I, d, prefix, Tail(keys), Append(items, r.item))

IterateAll(I, d, o) ==
    LET s == IterateStart(I, o)
    IN  IF s.err # NoErr THEN [items |-> <<>>, err |-> s.err]
        ELSE IterateRest(I, d, s.prefix, dbIterate(d, s.startKey, o.SkipStartFromItem),
                         <<>>)

\* one caller: no other call is made while Iterate runs
Idle == it.state = "idle"

NextIter ==
    \/ \E I \in Indexes, i \in Items : Idle /\ Put(I, i)
    \/ \E I \in Indexes, i \in KeyItems : Idle /\ Delete(I, i)
    \/ \E I \in Indexes, o \in IterOptions : IterateBegin(I, o)
    \/ \E cb \in CallbackResults : IterateStep(cb)
    \/ IterateReturn

SpecIter == Init /\ [][NextIter]_vars

(***************************************************************************)
(* Batched writes.  batch.writes maps each key set or deleted in the open  *)
(* transaction to its pending write; by is the index that issued it.       *)
(***************************************************************************)
\* a PutInBatch that hands the codec key to the batch without the index prefix
PutInBatchOpNoPrefix(I, w, i) ==
    LET k == EncodeKey(I, i)
        v == EncodeValue(I, i)
    IN  IF k.err # NoErr THEN [writes |-> w, err |-> k.err]
        ELSE IF v.err # NoErr THEN [writes |-> w, err |-> v.err]
        ELSE [writes |-> dbPut(w, k.key, [del |-> FALSE, value |-> v.value, by |-> I]),
              err |-> NoErr]

\* Index.PutInBatch: batch.Set(key, value)
PutInBatchOp(I, w, i) ==
    LET k == encodeKeyFunc(I, i)
        v == EncodeValue(I, i)
    IN  IF k.err # NoErr THEN [writes |-> w, err |-> k.err]
        ELSE IF v.err # NoErr THEN [writes |-> w, err |-> v.err]
        ELSE [writes |-> dbPut(w, k.key, [del |-> FALSE, value |-> v.value, by |-> I]),
              err |-> NoErr]

\* Index.DeleteInBatch: batch.Delete(key)
DeleteInBatchOp(I, w, keyFields) ==
    LET k == encodeKeyFunc(I, keyFields)
    IN  IF k.err # NoErr THEN [writes |-> w, err |-> k.err]
        ELSE [writes |-> dbPut(w, k.key, [del |-> TRUE, value |-> <<>>, by |-> I]),
              err |-> NoErr]

\* the store after the commit of the writes w
dbWriteBatch(d, w) ==
    LET keys == (DOMAIN d \cup {k \in DOMAIN w : ~w[k].del}) \ {k \in DOMAIN w : w[k].del}
    IN  [k \in keys |-> IF k \in DOMAIN w THEN w[k].value ELSE d[k]]

GetBatch ==
    /\ ~batch.open
    /\ batch' = [open |-> TRUE, writes |-> EmptyStore]
    /\ last' = Call("GetBatch", 0, ZeroItem, <<>>, ZeroItem, 0, FALSE, NoErr)
    /\ UNCHANGED <<db, it, txn, nPut, nDel, trojanVars>>

PutInBatch(I, i) ==
    LET r == PutInBatchOp(I, batch.writes, i)
    IN  /\ batch.open
        /\ Cardinality(DOMAIN r.writes) <= MaxBatch
        /\ batch' = [batch EXCEPT !.writes = r.writes]
        /\ last' = Call("PutInBatch", I, i, <<>>, ZeroItem, 0, FALSE, r.err)
        /\ UNCHANGED <<db, it, txn, nPut, nDel, trojanVars>>

DeleteInBatch(I, i) ==
    LET r == DeleteInBatchOp(I, batch.writes, i)
    IN  /\ batch.open
        /\ Cardinality(DOMAIN r.writes) <= MaxBatch
        /\ batch' = [batch EXCEPT !.writes = r.writes]
        /\ last' = Call("DeleteInBatch", I, i, <<>>, ZeroItem, 0, FALSE, r.err)
        /\ UNCHANGED <<db, it, txn, nPut, nDel, trojanVars>>

WriteBatch ==
    /\ batch.open
    /\ Fits(dbWriteBatch(db, batch.writes))
    /\ db' = dbWriteBatch(db, batch.writes)
    /\ batch' = NoBatch
    /\ last' = Call("WriteBatch", 0, ZeroItem, <<>>, ZeroItem,
                    Cardinality(DOMAIN batch.writes), FALSE, NoErr)
    /\ UNCHANGED <<it, txn, nPut, nDel, trojanVars>>

DiscardBatch ==
    /\ batch.open
    /\ batch' = NoBatch
    /\ last' = Call("Discard", 0, ZeroItem, <<>>, ZeroItem, 0, FALSE, NoErr)
    /\ UNCHANGED <<db, it, txn, nPut, nDel, trojanVars>>

\* the batch of the next state holds no more than MaxBatchIsolation writes
SmallBatch == Cardinality(DOMAIN batch'.writes) <= MaxBatchIsolation

\* one caller: a batch is filled and committed or discarded before the next
\* single write
NextBatch ==
    \/ \E I \in Indexes, i \in Items : ~batch.open /\ Put(I, i)
    \/ \E I \in Indexes, i \in KeyItems : ~batch.open /\ Delete(I, i)
    \/ GetBatch
    \/ \E I \in Indexes, i \in Items : PutInBatch(I, i) /\ SmallBatch
    \/ \E I \in Indexes, i \in KeyItems : DeleteInBatch(I, i) /\ SmallBatch
    \/ WriteBatch
    \/ DiscardBatch

SpecBatch == Init /\ [][NextBatch]_vars

\* the indexes that write through batches
BatchIndexes == {1, 2}

\* every write goes through a batch
NextCommit ==
    \/ GetBatch
    \/ \E I \in BatchIndexes, i \in Items : PutInBatch(I, i)
    \/ \E I \in BatchIndexes, i \in KeyItems : DeleteInBatch(I, i)
    \/ WriteBatch
    \/ DiscardBatch

SpecCommit == Init /\ [][NextCommit]_vars

(***************************************************************************)
(* Index.Fill and Index.HasMulti.  Each call opens a read transaction      *)
(* (db.GetBatch(false)), whose snapshot is the store at that moment, and   *)
(* makes one lookup per Item; each Step is one turn of the loop.           *)
(***************************************************************************)
\* the owner of a byte slice handed to a decoder: the engine, or the caller
\* after a copy
EngineOwned == "engine"

CallerOwned == "copy"

\* what a read of an Item field may give once its buffer is no longer valid
Garbage == Some(<<0>>)

\* txn.Get(key) on the snapshot of a read transaction
txnGet(snap, key) ==
    IF key \in DOMAIN snap
    THEN [value |-> snap[key], err |-> NoErr]
    ELSE [value |-> <<>>, err |-> ErrKeyNotFound]

\* a turn of Fill that leaves an absent entry as it is and goes on
FillOneSkipsAbsent(I, d, snap, item) ==
    LET k == encodeKeyFunc(I, item)
    IN  IF k.err # NoErr
        THEN [item |-> item, decoded |-> FALSE, buf |-> CallerOwned, err |-> k.err]
        ELSE LET g == txnGet(snap, k.key)
             IN  IF g.err # NoErr
                 THEN [item |-> item, decoded |-> FALSE, buf |-> CallerOwned,
                       err |-> NoErr]
                 ELSE LET o == DecodeValue(I, item, g.value)
                      IN  IF o.err # NoErr
                          THEN [item |-> item, decoded |-> TRUE, buf |-> EngineOwned,
                                err |-> o.err]
                          ELSE [item |-> Merge(o.item, item), decoded |-> TRUE,
                                buf |-> EngineOwned, err |-> NoErr]

\* a turn of Fill that reads the database and not its transaction
FillOneLive(I, d, snap, item) ==
    LET k == encodeKeyFunc(I, item)
    IN  IF k.err # NoErr
        THEN [item |-> item, decoded |-> FALSE, buf |-> CallerOwned, err |-> k.err]
        ELSE LET g == dbGet(d, k.key)
             IN  IF g.err # NoErr
                 THEN [item |-> item, decoded |-> FALSE, buf |-> CallerOwned,
                       err |-> g.err]
                 ELSE LET o == DecodeValue(I, item, g.value)
                      IN  IF o.err # NoErr
                          THEN [item |-> item, decoded |-> TRUE, buf |-> CallerOwned,
                                err |-> o.err]
                          ELSE [item |-> Merge(o.item, item), decoded |-> TRUE,
                                buf |-> CallerOwned, err |-> NoErr]

\* one turn of the loop of Index.Fill: item is the new slice entry, buf the
\* owner of the slice badgerItem.Value hands to the value decoder.  d is the
\* database of the Index, snap the snapshot of txn.
FillOne(I, d, snap, item) ==
    LET k == encodeKeyFunc(I, item)
    IN  IF k.err # NoErr
        THEN [item |-> item, decoded |-> FALSE, buf |-> CallerOwned, err |-> k.err]
        ELSE LET g == txnGet(snap, k.key)
             IN  IF g.err # NoErr
                 THEN [item |-> item, decoded |-> FALSE, buf |-> CallerOwned,
                       err |-> IF g.err = ErrKeyNotFound THEN ErrNotFound ELSE g.err]
                 ELSE LET o == DecodeValue(I, item, g.value)
                      IN  IF o.err # NoErr
                          THEN [item |-> item, decoded |-> TRUE, buf |-> EngineOwned,
                                err |-> o.err]
                          ELSE [item |-> Merge(o.item, item), decoded |-> TRUE,
                                buf |-> EngineOwned, err |-> NoErr]

FillBegin(I, items) ==
    /\ txn.state = "idle"
    /\ txn' = [NoTxn EXCEPT !.state = "running", !.op = "Fill", !.idx = I,
                            !.snap = db, !.orig = items, !.items = items, !.pos = 1]
    /\ last' = NoCall
    /\ UNCHANGED <<db, batch, it, nPut, nDel, trojanVars>>

FillStep ==
    /\ txn.state = "running"
    /\ txn.op = "Fill"
    /\ IF txn.pos > Len(txn.items)
       THEN txn' = [txn EXCEPT !.state = "done", !.err = NoErr]
       ELSE LET r == FillOne(txn.idx, db, txn.snap, txn.items[txn.pos])
            IN  txn' = [txn EXCEPT
                          !.state = IF r.err # NoErr THEN "done" ELSE "running",
                          !.items[txn.pos] = r.item,
                          !.pos = IF r.err # NoErr THEN @ ELSE @ + 1,
                          !.bufs = IF r.decoded THEN Append(@, r.buf) ELSE @,
                          !.err = r.err]
    /\ UNCHANGED <<db, batch, it, last, nPut, nDel, trojanVars>>

\* the entries of the slice whose Data the value decoder cut out of a slice
\* of the engine
Dangling(t) == {j \in 1..Len(t.bufs) : j < t.pos /\ t.bufs[j] = EngineOwned}

\* Fill returns and its deferred txn.Discard() runs: the slices of the engine
\* are no longer valid, and a later read of them gives the bytes stored or
\* anything else (stale)
FillReturn(stale) ==
    /\ txn.state = "done"
    /\ txn.op = "Fill"
    /\ stale => Dangling(txn) # {}
    /\ last' = [Call("Fill", txn.idx, ZeroItem, <<>>, ZeroItem, 0, FALSE, txn.err)
                  EXCEPT !.items = txn.orig,
                         !.res = IF stale
                                 THEN [j \in 1..Len(txn.items) |->
                                         IF j \in Dangling(txn)
                                         THEN [txn.items[j] EXCEPT !.Data = Garbage]
                                         ELSE txn.items[j]]
                                 ELSE txn.items,
                         !.bufs = txn.bufs]
    /\ txn' = NoTxn
    /\ UNCHANGED <<db, batch, it, nPut, nDel, trojanVars>>

\* a turn of HasMulti that reports every key the iterator lands on
HasMultiOneSeekOnly(I, snap, keyFields) ==
    LET k == encodeKeyFunc(I, keyFields)
    IN  IF k.err # NoErr THEN [has |-> FALSE, err |-> k.err]
        ELSE [has |-> dbSeek(snap, k.key) # <<>>, err |-> NoErr]

\* one turn of the loop of Index.HasMulti: it.Seek(key) on the snapshot
HasMultiOne(I, snap, keyFields) ==
    LET k == encodeKeyFunc(I, keyFields)
    IN  IF k.err # NoErr THEN [has |-> FALSE, err |-> k.err]
        ELSE LET at == dbSeek(snap, k.key)
             IN  [has |-> at # <<>> /\ at = k.key, err |-> NoErr]

HasMultiBegin(I, items) ==
    /\ txn.state = "idle"
    /\ txn' = [NoTxn EXCEPT !.state = "running", !.op = "HasMulti", !.idx = I,
                            !.snap = db, !.orig = items, !.items = items, !.pos = 1,
                            !.have = [j \in 1..Len(items) |-> FALSE]]
    /\ last' = NoCall
    /\ UNCHANGED <<db, batch, it, nPut, nDel, trojanVars>>

HasMultiStep ==
    /\ txn.state = "running"
    /\ txn.op = "HasMulti"
    /\ IF txn.pos > Len(txn.items)
       THEN txn' = [txn EXCEPT !.state = "done", !.err = NoErr]
       ELSE LET r == HasMultiOne(txn.idx, txn.snap, txn.items[txn.pos])
            IN  txn' = IF r.err # NoErr
                       THEN [txn EXCEPT !.state = "done", !.have = <<>>, !.err = r.err]
                       ELSE [txn EXCEPT !.have[txn.pos] = r.has, !.pos = @ + 1]
    /\ UNCHANGED <<db, batch, it, last, nPut, nDel, trojanVars>>

HasMultiReturn ==
    /\ txn.state = "done"
    /\ txn.op = "HasMulti"
    /\ last' = [Call("HasMulti", txn.idx, ZeroItem, <<>>, ZeroItem, 0, FALSE, txn.err)
                  EXCEPT !.items = txn.orig, !.res = txn.have]
    /\ txn' = NoTxn
    /\ UNCHANGED <<db, batch, it, nPut, nDel, trojanVars>>

\* db.Put(key, value) by a client of the database other than the Index
DbPut(key, value) ==
    /\ Fits(dbPut(db, key, value))
    /\ db' = dbPut(db, key, value)
    /\ last' = Call("db.Put", 0, ZeroItem, key, ZeroItem, 0, FALSE, NoErr)
    /\ UNCHANGED <<batch, it, txn, nPut, nDel, trojanVars>>

\* entries no codec of the indexes wrote: two truncated values and a key with
\* no codec bytes
RawEntries == {<<<<1, 1>>, <<>>>>, <<<<2, 1>>, <<>>>>, <<<<2>>, <<7, 0>>>>}

\* the Items of the slices handed to Fill: key fields alone, key fields with
\* other fields set, and an Item whose key does not encode
FillItems ==
    {[ZeroItem EXCEPT !.Address = Some(<<1>>)],
     [ZeroItem EXCEPT !.Address = Some(<<1>>), !.StoreTimestamp = 2,
                      !.AccessTimestamp = 3],
     [ZeroItem EXCEPT !.Address = Some(<<255>>)],
     ZeroItem}

\* the slices handed to Fill
FillLists ==
    {<<>>} \cup {<<a, b>> : a, b \in FillItems}
    \cup {<<a, b, [ZeroItem EXCEPT !.Address = Some(<<1>>)]>> :
              a, b \in FillItems \ {ZeroItem}}

\* the lists handed to HasMulti: one key, a key twice, a key that does not
\* encode, and the three addresses in every order
HasLists ==
    {<<>>} \cup {<<a>> : a \in KeyItems}
    \cup {<<a, a>> : a \in KeyItems \ {ZeroItem}}
    \cup {<<a, ZeroItem>> : a \in KeyItems \ {ZeroItem}}
    \cup {l \in [1..3 -> KeyItems \ {ZeroItem}] : Cardinality({l[1], l[2], l[3]}) = 3}

\* no Fill or HasMulti call is in progress
NoRead == txn.state = "idle"

\* one caller: writes between the calls of Fill and HasMulti
NextFill ==
    \/ \E I \in Indexes, i \in Items : NoRead /\ Put(I, i)
    \/ \E I \in Indexes, i \in KeyItems : NoRead /\ Delete(I, i)
    \/ \E e \in {x \in RawEntries : x[2] = <<>>} : NoRead /\ DbPut(e[1], e[2])
    \/ \E I \in Indexes, l \in FillLists : FillBegin(I, l)
    \/ FillStep
    \/ \E stale \in BOOLEAN : FillReturn(stale)
    \/ \E I \in Indexes, l \in HasLists : HasMultiBegin(I, l)
    \/ HasMultiStep
    \/ HasMultiReturn

SpecFill == Init /\ [][NextFill]_vars

\* the index that is read and written concurrently
SnapIndexes == {1}

\* a writer commits Puts and Deletes while one call of Fill, HasMulti or
\* Iterate is in progress
NextSnap ==
    \/ \E I \in SnapIndexes, i \in ValidItems : Put(I, i)
    \/ \E I \in SnapIndexes, i \in KeyItems : Delete(I, i)
    \/ \E I \in SnapIndexes, l \in FillLists : Idle /\ FillBegin(I, l)
    \/ FillStep
    \/ \E stale \in BOOLEAN : FillReturn(stale)
    \/ \E I \in SnapIndexes, l \in HasLists : Idle /\ HasMultiBegin(I, l)
    \/ HasMultiStep
    \/ HasMultiReturn
    \/ \E I \in SnapIndexes, o \in {x \in IterOptions : x.Prefix = <<>>} :
          NoRead /\ IterateBegin(I, o)
    \/ \E cb \in CallbackResults : IterateStep(cb)
    \/ IterateReturn

SpecSnap == Init /\ [][NextSnap]_vars

\* one caller reads a store that holds entries the decoders reject
NextErr ==
    \/ \E I \in Indexes, i \in Items : Idle /\ Put(I, i)
    \/ \E e \in RawEntries : Idle /\ DbPut(e[1], e[2])
    \/ \E I \in Indexes, i \in KeyItems : Idle /\ Get(I, i)
    \/ \E I \in Indexes, p \in KeyPrefixes : Idle /\ First(I, p)
    \/ \E I \in Indexes, p \in KeyPrefixes : Idle /\ Last(I, p)
    \/ \E I \in Indexes, o \in IterOptions : IterateBegin(I, o)
    \/ \E cb \in CallbackResults : IterateStep(cb)
    \/ IterateReturn

SpecErr == Init /\ [][NextErr]_vars

(***************************************************************************)
(* Properties of Fill and HasMulti.                                        *)
(***************************************************************************)
\* every key of the list encodes
AllEncode(I, items) ==
    \A j \in 1..Len(items) : encodeKeyFunc(I, items[j]).err = NoErr

\* have is the list of what Has returns on store d for each Item of items
AgreesWithHas(I, d, items, have) ==
    /\ Len(have) = Len(items)
    /\ \A j \in 1..Len(items) : have[j] = HasOp(I, d, items[j]).has

\* C11: for every list of Items whose keys encode, HasMulti returns with no
\* error a list of as many booleans, the i-th being what Has returns for the
\* i-th Item on the same store.
C11_HasMultiAgrees ==
    /\ (txn.op = "HasMulti" /\ txn.state = "done" /\ AllEncode(txn.idx, txn.orig)) =>
          /\ txn.err = NoErr
          /\ AgreesWithHas(txn.idx, txn.snap, txn.orig, txn.have)
    /\ (last.op = "HasMulti" /\ AllEncode(last.idx, last.items)) =>
          /\ last.err = NoErr
          /\ AgreesWithHas(last.idx, db, last.items, last.res)

\* HasMulti of an absent key that is a strict prefix of the present key, the
\* present key, and an absent key after it
C11_Witness ==
    /\ last.op = "HasMulti"
    /\ last.res = <<FALSE, TRUE, FALSE>>
    /\ last.items[1].Address = Some(<<1>>)
    /\ last.items[2].Address = Some(<<1, 255>>)
    /\ last.items[3].Address = Some(<<255>>)

\* the positions of the slice at which a lookup fails
FillFailures(I, d, items) ==
    {j \in 1..Len(items) : GetOp(I, d, items[j]).err # NoErr}

\* C12: Fill goes through the slice from the first entry on; at the first
\* entry whose lookup fails it returns the error of that lookup (NotFound for
\* an absent key), the entries before it are replaced by the decoded value
\* merged with the original entry, which is what Get returns for the original
\* entry, and that entry and the later ones are unchanged; with no failure
\* every entry is replaced and the error is nil.
C12_FillFailFast ==
    txn.op = "Fill" =>
        LET fails == FillFailures(txn.idx, txn.snap, txn.orig)
            first == IF fails = {} THEN Len(txn.orig) + 1
                     ELSE CHOOSE j \in fails : \A o \in fails : j <= o
        IN  /\ txn.pos <= first
            /\ \A j \in 1..Len(txn.orig) :
                  IF j < txn.pos
                  THEN /\ txn.items[j] = GetOp(txn.idx, txn.snap, txn.orig[j]).out
                       /\ txn.items[j] =
                             Merge(DecodeValue(txn.idx, txn.orig[j],
                                               txn.snap[encodeKeyFunc(txn.idx, txn.orig[j]).key]).item,
                                   txn.orig[j])
                  ELSE txn.items[j] = txn.orig[j]
            /\ txn.state = "done" =>
                  /\ txn.pos = first
                  /\ IF fails = {} THEN txn.err = NoErr
                     ELSE /\ txn.err = GetOp(txn.idx, txn.snap, txn.orig[first]).err
                          /\ encodeKeyFunc(txn.idx, txn.orig[first]).err = NoErr
                             /\ ~dbHas(txn.snap, encodeKeyFunc(txn.idx, txn.orig[first]).key)
                                => txn.err = ErrNotFound

\* a Fill of three entries that failed on the absent second one, with the
\* first entry replaced and the present third one unchanged
C12_Witness ==
    /\ txn.op = "Fill" /\ txn.state = "done"
    /\ txn.err = ErrNotFound
    /\ txn.pos = 2 /\ Len(txn.items) = 3
    /\ txn.items[1] # txn.orig[1]
    /\ GetOp(txn.idx, txn.snap, txn.orig[3]).err = NoErr
    /\ txn.items[3] = txn.orig[3]

\* the owners of the slices Index.itemFromKeyValue hands to the key decoder
\* and to the value decoder
itemFromKeyValueBufs == [key |-> CallerOwned, value |-> CallerOwned]

\* C15: every key or value slice that Fill, Iterate, First and Last hand to a
\* decoder is a copy, and no Item returned refers to a buffer that the close
\* of the read transaction has made invalid.
C15_NoEngineBuffer ==
    /\ itemFromKeyValueBufs.key = CallerOwned
    /\ itemFromKeyValueBufs.value = CallerOwned
    /\ \A j \in 1..Len(txn.bufs) : txn.bufs[j] = CallerOwned
    /\ last.op = "Fill" =>
          /\ \A j \in 1..Len(last.bufs) : last.bufs[j] = CallerOwned
          /\ \A j \in 1..Len(last.res) : last.res[j].Data # Garbage

(***************************************************************************)
(* Properties of the point and range lookups.                              *)
(***************************************************************************)
\* the keys of index I in store d that start with the combined prefix
KeysIn(I, d, p) == {k \in DOMAIN d : HasPrefix(k, IndexPrefix(I) \o p)}

MinKey(S) == CHOOSE k \in S : \A o \in S : BytesLeq(k, o)

MaxKey(S) == CHOOSE k \in S : \A o \in S : BytesLeq(o, k)

\* out and i are equal on the fields the key codec or the value codec commits to
AgreeOnCommitted(out, i) ==
    /\ out.Address = i.Address
    /\ out.Data = i.Data
    /\ out.StoreTimestamp = i.StoreTimestamp

\* item is the entry stored under key k of index I
IsEntry(I, d, k, item) ==
    /\ encodeKeyFunc(I, item) = [key |-> k, err |-> NoErr]
    /\ EncodeValue(I, item) = [value |-> d[k], err |-> NoErr]

\* the step is a Put or a Delete of index I with the encoded key of keyFields
TouchesKey(I, keyFields) ==
    /\ last'.op \in {"Put", "Delete"}
    /\ last'.err = NoErr
    /\ encodeKeyFunc(last'.idx, last'.item).key = encodeKeyFunc(I, keyFields).key

GetAfterPut ==
    (last.op = "Put" /\ last.err = NoErr) =>
        LET r == GetOp(last.idx, db, KeyFieldsOf(last.item))
        IN  r.err = NoErr /\ AgreeOnCommitted(r.out, last.item)

GetUntouched ==
    db' # db =>
        \A I \in Indexes, kf \in KeyItems :
            (encodeKeyFunc(I, kf).err = NoErr /\ ~TouchesKey(I, kf)) =>
                GetOp(I, db', kf) = GetOp(I, db, kf)

\* C1: after a Put of an Item whose encoders succeed, Get with the key fields
\* of that Item succeeds and returns an Item equal to it on the fields the
\* codecs commit to, and keeps doing so until a Put or Delete of the same
\* encoded key.
C1_PutGetRoundTrip == [](GetAfterPut) /\ [][GetUntouched]_vars

\* a Get of the key fields of a stored Item, after a Put of another key
C1_Witness ==
    /\ last.op = "Get" /\ last.err = NoErr
    /\ last.item \in KeyItems
    /\ last.out.StoreTimestamp = 1
    /\ Cardinality(DOMAIN db) >= 2

\* x where it is set, y where x is zero or nil
Either(x, y, zero) == IF x # zero THEN x ELSE y

\* C17: Get of a present key returns the Item of the value decoder with each
\* zero or nil field filled from the key fields of the caller, so a field the
\* caller set and the decoder left zero is returned as the caller set it; Get
\* of an absent key returns NotFound and no decoded Item.
C17_GetMergeDirection ==
    (last.op = "Get" /\ encodeKeyFunc(last.idx, last.item).err = NoErr) =>
        LET k == encodeKeyFunc(last.idx, last.item).key
        IN  IF k \notin DOMAIN db
            THEN last.err = ErrNotFound /\ last.out = ZeroItem
            ELSE LET dec == DecodeValue(last.idx, last.item, db[k]).item
                     in == last.item
                     out == last.out
                 IN  /\ last.err = NoErr
                     /\ out.Address = Either(dec.Address, in.Address, Nil)
                     /\ out.Data = Either(dec.Data, in.Data, Nil)
                     /\ out.AccessTimestamp =
                           Either(dec.AccessTimestamp, in.AccessTimestamp, 0)
                     /\ out.StoreTimestamp =
                           Either(dec.StoreTimestamp, in.StoreTimestamp, 0)
                     /\ out.BinID = Either(dec.BinID, in.BinID, 0)
                     /\ out.PinCounter = Either(dec.PinCounter, in.PinCounter, 0)
                     /\ out.Tag = Either(dec.Tag, in.Tag, 0)

\* a Get whose caller set a store timestamp other than the stored one, and an
\* access timestamp the value decoder does not produce
C17_Witness ==
    /\ last.op = "Get" /\ last.err = NoErr
    /\ last.item.StoreTimestamp = 2 /\ last.out.StoreTimestamp = 1
    /\ last.item.AccessTimestamp = 3 /\ last.out.AccessTimestamp = 3

\* C7: when some entry of the index has a key that starts with the combined
\* prefix, First returns the entry with the smallest such key and Last the
\* entry with the largest, also when the combined prefix is all 0xFF.
C7_FirstLastExtremes ==
    (last.op \in {"First", "Last"} /\ KeysIn(last.idx, db, last.p) # {}) =>
        /\ last.err = NoErr
        /\ IsEntry(last.idx, db,
                   IF last.op = "First" THEN MinKey(KeysIn(last.idx, db, last.p))
                   ELSE MaxKey(KeysIn(last.idx, db, last.p)),
                   last.out)

\* Last of the all-0xFF combined prefix, with a second entry of the index
\* outside that prefix
C7_Witness ==
    /\ last.op = "Last" /\ last.idx = 255 /\ last.p = <<255>>
    /\ last.err = NoErr
    /\ Cardinality(KeysIn(255, db, <<>>)) = 2
    /\ Cardinality(KeysIn(255, db, <<255>>)) = 1

\* C8: when no entry has a key that starts with the combined prefix, First
\* and Last return the NotFound error that Get returns for an absent key,
\* and no entry of a neighbouring index or prefix.
C8_FirstLastEmpty ==
    (last.op \in {"First", "Last"} /\ KeysIn(last.idx, db, last.p) = {}) =>
        /\ last.err = ErrNotFound
        /\ last.err = dbGet(db, IndexPrefix(last.idx) \o last.p).err
        /\ last.out = ZeroItem

\* Last on the empty index 2 between the populated indexes 1 and 255
C8_Witness ==
    /\ last.op = "Last" /\ last.idx = 2 /\ last.p = <<>>
    /\ last.err = ErrNotFound
    /\ KeysIn(1, db, <<>>) # {}
    /\ KeysIn(255, db, <<>>) # {}

\* C10: CountFrom(start) is the number of entries of this index with a key
\* greater than or equal to the encoded key of start; entries under other
\* prefix bytes are never counted.
C10_CountFromScoped ==
    (last.op = "CountFrom" /\ last.err = NoErr) =>
        last.n = Cardinality({k \in KeysIn(last.idx, db, <<>>) :
                                 BytesLeq(encodeKeyFunc(last.idx, last.item).key, k)})

(***************************************************************************)
(* Counting the committed Puts and Deletes of each index on a fresh store. *)
(***************************************************************************)
RECURSIVE SumOver(_, _)
SumOver(f, S) ==
    IF S = {} THEN 0
    ELSE LET x == CHOOSE y \in S : TRUE IN f[x] + SumOver(f, S \ {x})

OpsLeft == SumOver(nPut, Indexes) + SumOver(nDel, Indexes) < MaxOps

PutCounted(I, i) ==
    /\ OpsLeft
    /\ PutStep(I, i)
    /\ nPut' = IF PutOp(I, db, i).err = NoErr THEN [nPut EXCEPT ![I] = @ + 1] ELSE nPut
    /\ UNCHANGED nDel

DeleteCounted(I, i) ==
    /\ OpsLeft
    /\ DeleteStep(I, i)
    /\ nDel' = IF DeleteOp(I, db, i).err = NoErr THEN [nDel EXCEPT ![I] = @ + 1] ELSE nDel
    /\ UNCHANGED nPut

NextCount ==
    \/ \E I \in Indexes, i \in Items : PutCounted(I, i)
    \/ \E I \in Indexes, i \in KeyItems : DeleteCounted(I, i)
    \/ \E I \in Indexes : Count(I)

SpecCount == Init /\ [][NextCount]_vars

\* C9: Count() equals the number of committed Puts minus the number of
\* committed Deletes of the index.
C9_CountLaw ==
    last.op = "Count" => last.n = nPut[last.idx] - nDel[last.idx]

CountIsStoredKeys ==
    last.op = "Count" => last.n = Cardinality(KeysIn(last.idx, db, <<>>))

\* a committed Put adds one to the Count of its index when its key was absent,
\* a committed Delete takes one off when its key was present, and nothing
\* else changes a Count
CountStep ==
    \A I \in Indexes :
        LET key == encodeKeyFunc(last'.idx, last'.item).key
            new == IF nPut'[I] > nPut[I] /\ key \notin DOMAIN db THEN 1 ELSE 0
            gone == IF nDel'[I] > nDel[I] /\ key \in DOMAIN db THEN 1 ELSE 0
        IN  CountOp(I, db') = CountOp(I, db) + new - gone

\* C9 (amended): Count() is the number of distinct encoded keys stored: on a
\* fresh index, the Puts of a key not then present minus the Deletes of a
\* key then present.
C9_CountLawAmended ==
    /\ \A I \in Indexes : CountOp(I, db) = 0
    /\ [](CountIsStoredKeys)
    /\ [][CountStep]_vars

\* a Count of 1 after two committed Puts on the same key
C9_Witness ==
    /\ last.op = "Count" /\ last.n = 1
    /\ nPut[last.idx] = 2 /\ nDel[last.idx] = 0

\* the step is a committed Put
PutCommitted == last'.op = "Put" /\ last'.err = NoErr /\ nPut' # nPut

\* a committed Put of the Item the last committed Put stored leaves the store,
\* the Count, the Get of the Item and the sequence of Iterate as they are
PutTwice ==
    (PutCommitted /\ last.op = "Put" /\ last.err = NoErr /\ last' = last) =>
        /\ db' = db
        /\ CountOp(last.idx, db') = CountOp(last.idx, db)
        /\ GetOp(last.idx, db', last.item) = GetOp(last.idx, db, last.item)
        /\ IterateAll(last.idx, db', NoOptions) = IterateAll(last.idx, db, NoOptions)

\* after a committed Put, Get returns the value of that Put, whatever was
\* stored under its key
PutLastWins ==
    PutCommitted =>
        LET r == GetOp(last'.idx, db', KeyFieldsOf(last'.item))
        IN  /\ r.err = NoErr
            /\ AgreeOnCommitted(r.out, last'.item)
            /\ \A k \in DOMAIN db \ {encodeKeyFunc(last'.idx, last'.item).key} :
                  k \in DOMAIN db' /\ db'[k] = db[k]

\* C20: a Put of the Item that was just put leaves the store as one Put left
\* it (same Count, same Get, same Iterate sequence), and after two Puts of
\* the same encoded key with different values Get returns the value of the
\* later Put.
C20_PutIdempotent == [][PutTwice /\ PutLastWins]_vars

\* two committed Puts on one key of an index, the store holding the value of
\* the later one
C20_Witness ==
    /\ last.op = "Put" /\ last.err = NoErr
    /\ nPut[last.idx] = 2
    /\ SumOver(nPut, Indexes) = 2 /\ SumOver(nDel, Indexes) = 0
    /\ Cardinality(DOMAIN db) = 1
    /\ db[encodeKeyFunc(last.idx, last.item).key] = EncodeValue(last.idx, last.item).value

\* the step is a committed Delete
DeleteCommitted == last'.op = "Delete" /\ last'.err = NoErr /\ nDel' # nDel

\* after a Delete that returned no error, Has of its key is false and Get of
\* its key is NotFound
DeleteThenAbsent ==
    (last.op = "Delete" /\ last.err = NoErr) =>
        /\ ~HasOp(last.idx, db, last.item).has
        /\ HasOp(last.idx, db, last.item).err = NoErr
        /\ GetOp(last.idx, db, last.item).err = ErrNotFound

\* a key that is absent stays absent until a Put of that key
StaysAbsent ==
    \A I \in Indexes, kf \in KeyItems \ {ZeroItem} :
        (~HasOp(I, db, kf).has /\ HasOp(I, db', kf).has) =>
            /\ PutCommitted
            /\ encodeKeyFunc(last'.idx, last'.item).key = encodeKeyFunc(I, kf).key

\* a Delete returns no error whether its key is stored or not, takes nothing
\* but its key from the store, and leaves the store as it is when the key is
\* absent
DeleteFrame ==
    (last'.op = "Delete" /\ encodeKeyFunc(last'.idx, last'.item).err = NoErr
        /\ nDel' # nDel) =>
        LET key == encodeKeyFunc(last'.idx, last'.item).key
        IN  /\ last'.err = NoErr
            /\ \A k \in DOMAIN db \ {key} : k \in DOMAIN db' /\ db'[k] = db[k]
            /\ DOMAIN db' \subseteq DOMAIN db
            /\ key \notin DOMAIN db => db' = db

\* C21: after a Delete that returned no error, Has of the key is false and
\* Get of the key returns NotFound until a later Put of the same key; a
\* Delete of an absent key returns no error and leaves every entry of this
\* and of every other index as it is.
C21_DeleteSemantics ==
    [](DeleteThenAbsent) /\ [][StaysAbsent /\ DeleteFrame]_vars

\* a Delete of the one key put in its index, with an entry of another index
\* left in the store
C21_Witness ==
    /\ last.op = "Delete" /\ last.err = NoErr
    /\ nPut[last.idx] = 1 /\ nDel[last.idx] = 1
    /\ CountOp(last.idx, db) = 0
    /\ Cardinality(DOMAIN db) = 1

(***************************************************************************)
(* Get against Iterate, First and Last on the same entry.                  *)
(***************************************************************************)
\* an index whose decoders set different fields and one whose decoders both
\* set Address
AgreeIndexes == {1, ShortKeyIndex}

NextAgree ==
    \/ \E I \in AgreeIndexes, i \in Items : Put(I, i)
    \/ \E I \in AgreeIndexes, i \in KeyItems : Delete(I, i)
    \/ \E I \in AgreeIndexes, i \in KeyItems : Get(I, i)
    \/ \E I \in AgreeIndexes, p \in KeyPrefixes : First(I, p)
    \/ \E I \in AgreeIndexes, p \in KeyPrefixes : Last(I, p)

SpecAgree == Init /\ [][NextAgree]_vars

\* Get with the key fields decoded from key k of index I returns the Item
\* that Iterate, First and Last make of the entry at k
GetAgreesAt(I, d, k) ==
    LET x == itemFromKeyValue(I, k, d[k], IndexPrefix(I))
        g == GetOp(I, d, decodeKeyFunc(I, k).item)
    IN  x.err = NoErr => (g.err = NoErr /\ g.out = x.item)

ItScanPrefix == IndexPrefix(it.idx) \o it.opts.Prefix

\* the start key of the Iterate call in progress: key(StartFrom), or the scan
\* prefix
ItStartKey ==
    IF it.opts.StartFrom = Nil THEN ItScanPrefix
    ELSE encodeKeyFunc(it.idx, it.opts.StartFrom[1]).key

\* the StartFrom of the Iterate call in progress encodes
ItStartOk ==
    it.opts.StartFrom = Nil \/ encodeKeyFunc(it.idx, it.opts.StartFrom[1]).err = NoErr

\* the keys db.Iterate walks in the Iterate call in progress
ItScan == dbIterate(it.snap, ItStartKey, it.opts.SkipStartFromItem)

ItCalledKeys == {it.calls[j].key : j \in 1..Len(it.calls)}

\* fn has returned neither stop nor an error so far
ItContinued == \A j \in 1..Len(it.calls) : ~it.calls[j].stop /\ it.calls[j].err = NoErr

\* the Iterate call is over, it began without error and fn never ended it
ItRanOut ==
    /\ it.state = "done"
    /\ ItStartOk
    /\ ItContinued

\* the position of key k in the log of callback invocations, 0 if none
ItPos(k) ==
    IF k \in ItCalledKeys
    THEN CHOOSE j \in 1..Len(it.calls) : it.calls[j].key = k
    ELSE 0

\* the length of the longest initial run of keys that start with prefix
RECURSIVE RunLength(_, _)
RunLength(keys, prefix) ==
    IF keys = <<>> \/ ~HasPrefix(Head(keys), prefix) THEN 0
    ELSE 1 + RunLength(Tail(keys), prefix)

\* C3: the callback sees entries in strictly ascending order of their keys,
\* each at most once, each Item being the entry of its key; an iteration from
\* the key of a stored entry x without skip, which fn does not end, yields x
\* before every entry y of the scan with a larger key.
C3_IterateOrder ==
    /\ \A j, k \in 1..Len(it.calls) :
          j < k => BytesLess(it.calls[j].key, it.calls[k].key)
    /\ \A j \in 1..Len(it.calls) :
          IsEntry(it.idx, it.snap, it.calls[j].key, it.calls[j].item)
    /\ (ItRanOut /\ it.opts.StartFrom # Nil /\ ~it.opts.SkipStartFromItem) =>
          \A x, y \in KeysIn(it.idx, it.snap, it.opts.Prefix) :
              (x = ItStartKey /\ BytesLess(x, y)) =>
                  /\ ItPos(x) = 1
                  /\ ItPos(y) > 1

\* an iteration from a stored entry that yielded two entries
C3_Witness ==
    /\ ItRanOut /\ it.opts.StartFrom # Nil /\ ~it.opts.SkipStartFromItem
    /\ Len(it.calls) = 2
    /\ it.calls[1].key = ItStartKey

\* C4: the callback is never called for a key that does not start with the
\* scan prefix; at the first such key the iteration ends and Iterate returns
\* no error.
C4_IteratePrefixBound ==
    /\ \A j \in 1..Len(it.calls) : HasPrefix(it.calls[j].key, ItScanPrefix)
    /\ \A j \in 1..Len(it.calls) : it.calls[j].key[1] = it.idx
    /\ (ItRanOut /\ Len(it.calls) < Len(ItScan)) =>
          /\ ~HasPrefix(ItScan[Len(it.calls) + 1], ItScanPrefix)
          /\ it.err = NoErr

\* an iteration that yielded an entry and ended at a key of another index
C4_Witness ==
    /\ ItRanOut /\ Len(it.calls) = 1 /\ Len(ItScan) > 1
    /\ ItScan[2][1] # it.idx
    /\ it.err = NoErr

ItSkipCase ==
    /\ ItRanOut
    /\ it.opts.StartFrom # Nil
    /\ it.opts.SkipStartFromItem

\* C5: with StartFrom = s and SkipStartFromItem, the entry with key exactly
\* key(s) is not yielded and every entry of the scan prefix with a key
\* greater than key(s) is yielded; if no entry has key exactly key(s), the
\* first entry greater than key(s) is yielded.
C5_SkipStart ==
    ItSkipCase =>
        /\ ItStartKey \notin ItCalledKeys
        /\ \A k \in KeysIn(it.idx, it.snap, it.opts.Prefix) :
              BytesLess(ItStartKey, k) => k \in ItCalledKeys
        /\ LET after == {k \in KeysIn(it.idx, it.snap, it.opts.Prefix) :
                            BytesLess(ItStartKey, k)}
           IN  (ItStartKey \notin DOMAIN it.snap /\ after # {}) =>
                   (it.calls # <<>> /\ it.calls[1].key = MinKey(after))

\* C5 (amended): with StartFrom = s and SkipStartFromItem, the entry with key
\* exactly key(s) is not yielded, and the entries yielded are the stored keys
\* greater than key(s) up to the first one that does not start with the scan
\* prefix: every entry of the scan prefix greater than key(s) when key(s)
\* starts with the scan prefix.
C5_SkipStartAmended ==
    ItSkipCase =>
        /\ ItStartKey \notin ItCalledKeys
        /\ LET after == SortedKeys({k \in DOMAIN it.snap : BytesLess(ItStartKey, k)})
               n == RunLength(after, ItScanPrefix)
           IN  ItCalledKeys = {after[j] : j \in 1..n}
        /\ HasPrefix(ItStartKey, ItScanPrefix) =>
              LET after == {k \in KeysIn(it.idx, it.snap, it.opts.Prefix) :
                              BytesLess(ItStartKey, k)}
              IN  /\ after \subseteq ItCalledKeys
                  /\ (ItStartKey \notin DOMAIN it.snap /\ after # {}) =>
                         (it.calls # <<>> /\ it.calls[1].key = MinKey(after))

\* the start key is stored and skipped, and the entry after it is yielded
C5_Witness ==
    /\ ItSkipCase
    /\ ItStartKey \in DOMAIN it.snap
    /\ Len(it.calls) = 1

\* C6: a callback that returns stop or an error is the last one called; then
\* Iterate returns that error, or nil if fn returned stop with no error.
C6_CallbackEnds ==
    /\ \A j \in 1..Len(it.calls) :
          (it.calls[j].stop \/ it.calls[j].err # NoErr) =>
              /\ j = Len(it.calls)
              /\ it.state = "done"
              /\ it.err = it.calls[j].err
    /\ it.state = "running" => ItContinued

\* fn returned stop together with an error on the first entry, with a second
\* entry left in the scan
C6_Witness ==
    /\ it.state = "done"
    /\ Len(it.calls) = 1
    /\ it.calls[1].stop /\ it.calls[1].err = ErrCallback
    /\ it.err = ErrCallback
    /\ Len(ItScan) = 2 /\ HasPrefix(ItScan[2], ItScanPrefix)

\* an Iterate without SkipStartFromItem that began without error and that fn
\* never ended
ItFullCase == ItRanOut /\ ~it.opts.SkipStartFromItem /\ it.err = NoErr

\* the entries of the scan prefix at or after the start key
ItDue == {k \in KeysIn(it.idx, it.snap, it.opts.Prefix) : BytesLeq(ItStartKey, k)}

\* C26 as stated: an Iterate that fn never ends yields every entry of the
\* index whose key starts with the scan prefix and is at or after the start
\* key, also when key(s) does not start with the scan prefix and sorts before
\* the first entry of the scan prefix.
C26_IterateComplete == ItFullCase => ItDue \subseteq ItCalledKeys

\* no stored key outside the scan prefix lies between the start key and an
\* entry of the scan prefix
ItNothingBetween ==
    \A x \in DOMAIN it.snap :
        (BytesLeq(ItStartKey, x) /\ ~HasPrefix(x, ItScanPrefix)) =>
            \A k \in ItDue : BytesLess(k, x)

\* C26 (amended): an Iterate that fn never ends yields the stored keys at or
\* after the start key up to the first one that does not start with the scan
\* prefix: every entry of the scan prefix at or after the start key when the
\* start key starts with the scan prefix or no stored key outside the scan
\* prefix lies between the start key and those entries, and none of them
\* when the first stored key at or after the start key is outside the scan
\* prefix.
C26_IterateCompleteAmended ==
    ItFullCase =>
        LET from == SortedKeys({k \in DOMAIN it.snap : BytesLeq(ItStartKey, k)})
            n == RunLength(from, ItScanPrefix)
        IN  /\ ItCalledKeys = {from[j] : j \in 1..n}
            /\ (HasPrefix(ItStartKey, ItScanPrefix) \/ ItNothingBetween) =>
                   ItDue \subseteq ItCalledKeys
            /\ (from # <<>> /\ ~HasPrefix(from[1], ItScanPrefix)) => it.calls = <<>>

\* key(s) is outside and before the scan prefix, an entry outside the scan
\* prefix lies between it and an entry of the scan prefix, and nothing is
\* yielded
C26_Witness ==
    /\ ItFullCase
    /\ it.opts.StartFrom # Nil
    /\ ~HasPrefix(ItStartKey, ItScanPrefix)
    /\ ItDue # {}
    /\ BytesLess(ItStartKey, MinKey(KeysIn(it.idx, it.snap, it.opts.Prefix)))
    /\ ~ItNothingBetween
    /\ it.calls = <<>>

(***************************************************************************)
(* Isolation of the indexes.                                               *)
(***************************************************************************)
\* the results of every read of index B on store d
ReadsOf(B, d) ==
    [get      |-> [kf \in QueryItems |-> GetOp(B, d, kf)],
     has      |-> [kf \in KeyItems |-> HasOp(B, d, kf)],
     hasMulti |-> [ks \in KeyItems \X KeyItems |-> HasMultiOp(B, d, ks)],
     count    |-> CountOp(B, d),
     iterate  |-> [o \in IterOptions |-> IterateAll(B, d, o)],
     first    |-> [p \in KeyPrefixes |-> FirstOp(B, d, p)],
     last     |-> [p \in KeyPrefixes |-> LastOp(B, d, p)]]

\* the indexes whose Put, Delete, PutInBatch or DeleteInBatch the step commits
Writers ==
    IF last'.op \in {"Put", "Delete"} THEN {last'.idx}
    ELSE IF last'.op = "WriteBatch"
         THEN {batch.writes[k].by : k \in DOMAIN batch.writes}
         ELSE {}

\* the keys whose stored value the step changes
ChangedKeys ==
    {k \in DOMAIN db \cup DOMAIN db' :
        ~(k \in DOMAIN db /\ k \in DOMAIN db' /\ db[k] = db'[k])}

ReadsUnchanged ==
    db' # db =>
        /\ \A B \in Indexes \ Writers : ReadsOf(B, db') = ReadsOf(B, db)
        /\ \A k \in ChangedKeys : \E A \in Writers : HasPrefix(k, IndexPrefix(A))

KeysArePrefixed ==
    /\ \A k \in DOMAIN batch.writes : HasPrefix(k, IndexPrefix(batch.writes[k].by))
    /\ (last.op \in {"Put", "PutInBatch"} /\ last.err = NoErr) =>
          LET key == IndexPrefix(last.idx) \o EncodeKey(last.idx, last.item).key
          IN  IF last.op = "Put" THEN key \in DOMAIN db
              ELSE key \in DOMAIN batch.writes

\* C2: Put, Delete, PutInBatch and DeleteInBatch of one index leave every
\* result of Get, Has, HasMulti, Count, Iterate, First and Last of any other
\* index unchanged; every key handed to the database or to a batch is the
\* prefix byte of the index followed by the key bytes of the codec.
C2_IndexIsolation == [](KeysArePrefixed) /\ [][ReadsUnchanged]_vars

\* a committed batch write of index 2 on a key whose codec bytes are also
\* stored under index 1
C2_Witness ==
    /\ last.op = "WriteBatch"
    /\ <<1, 1>> \in DOMAIN db
    /\ <<2, 1>> \in DOMAIN db
    /\ db[<<1, 1>>] # db[<<2, 1>>]

(***************************************************************************)
(* Properties of batched writes.                                           *)
(***************************************************************************)
\* the results of the reads of index I on store d that concern Item i
ReadsAbout(I, d, i) ==
    [get     |-> GetOp(I, d, KeyFieldsOf(i)),
     has     |-> HasOp(I, d, i),
     count   |-> CountOp(I, d),
     iterate |-> IterateAll(I, d, NoOptions)]

\* PutInBatch and DeleteInBatch leave the committed store as it is
BatchInvisible ==
    last'.op \in {"PutInBatch", "DeleteInBatch"} =>
        /\ db' = db
        /\ ReadsAbout(last'.idx, db', last'.item) = ReadsAbout(last'.idx, db, last'.item)

\* the commit makes every accumulated write and delete visible, and nothing
\* else changes
BatchCommits ==
    last'.op = "WriteBatch" =>
        /\ \A k \in DOMAIN batch.writes :
              IF batch.writes[k].del THEN k \notin DOMAIN db'
              ELSE k \in DOMAIN db' /\ db'[k] = batch.writes[k].value
        /\ \A k \in (DOMAIN db \cup DOMAIN db') \ DOMAIN batch.writes :
              k \in DOMAIN db /\ k \in DOMAIN db' /\ db'[k] = db[k]
        /\ (last.op = "PutInBatch" /\ last.err = NoErr) =>
              LET r == GetOp(last.idx, db', KeyFieldsOf(last.item))
              IN  r.err = NoErr /\ AgreeOnCommitted(r.out, last.item)
        /\ (last.op = "DeleteInBatch" /\ last.err = NoErr) =>
              ~HasOp(last.idx, db', last.item).has
        /\ batch' = NoBatch

\* a discarded batch leaves the committed store as it is and nothing pending,
\* and a new batch starts empty
BatchDiscards ==
    /\ last'.op = "Discard" => (db' = db /\ batch' = NoBatch)
    /\ last'.op = "GetBatch" => (db' = db /\ batch'.writes = EmptyStore)

\* C13: PutInBatch and DeleteInBatch leave the committed store unchanged, so
\* that Get, Has, Count and Iterate return what they returned before; the
\* commit makes all accumulated writes and deletes visible together, and a
\* batch discarded without commit leaves nothing visible or pending.
C13_BatchAtomic == [][BatchInvisible /\ BatchCommits /\ BatchDiscards]_vars

\* a commit of two accumulated writes that left one entry in the store
C13_Witness ==
    /\ last.op = "WriteBatch"
    /\ last.n = 2
    /\ Cardinality(DOMAIN db) = 1

(***************************************************************************)
(* Properties of the reads under a concurrent writer.                      *)
(***************************************************************************)
\* the lookups Fill has made, the seeks HasMulti has made and the entries
\* Iterate has yielded are those of the snapshot of the call
LookupsOnSnapshot ==
    /\ txn.op = "Fill" =>
          /\ \A j \in 1..Len(txn.orig) :
                j < txn.pos => txn.items[j] = GetOp(txn.idx, txn.snap, txn.orig[j]).out
          /\ (txn.state = "done" /\ txn.pos <= Len(txn.orig)) =>
                txn.err = GetOp(txn.idx, txn.snap, txn.orig[txn.pos]).err
    /\ txn.op = "HasMulti" =>
          \A j \in 1..Len(txn.have) :
              j < txn.pos => txn.have[j] = HasOp(txn.idx, txn.snap, txn.orig[j]).has
    /\ \A j \in 1..Len(it.calls) :
          /\ it.calls[j].key \in DOMAIN it.snap
          /\ IsEntry(it.idx, it.snap, it.calls[j].key, it.calls[j].item)

\* the snapshot of a call is the store at the start of the call and stays
\* what it is until the call returns
SnapshotFixed ==
    /\ (txn.state = "idle" /\ txn'.state # "idle") => txn'.snap = db
    /\ (txn.state # "idle" /\ txn'.state # "idle") => txn'.snap = txn.snap
    /\ (it.state = "idle" /\ it'.state = "running") => it'.snap = db
    /\ (it.state = "running" /\ it'.state # "idle") => it'.snap = it.snap

\* C14: all lookups of one Fill call, all seeks of one HasMulti call and all
\* entries yielded by one Iterate call are those of the store as it was at
\* the start of the call, whatever a concurrent writer commits while the call
\* is in progress.
C14_SnapshotReads == [](LookupsOnSnapshot) /\ [][SnapshotFixed]_vars

\* a Fill that did not find its second key, which a concurrent Put has
\* committed since the start of the call
C14_Witness ==
    /\ txn.op = "Fill" /\ txn.state = "done"
    /\ txn.pos = 2 /\ txn.err = ErrNotFound
    /\ txn.snap # db
    /\ GetOp(txn.idx, db, txn.orig[2]).err = NoErr
    /\ GetOp(txn.idx, db, txn.orig[1]) = GetOp(txn.idx, txn.snap, txn.orig[1])

(***************************************************************************)
(* Properties of the errors.                                               *)
(***************************************************************************)
\* the error of the decoders on the entry stored under key k of index I
DecodeErrorOf(I, d, k) ==
    LET ki == decodeKeyFunc(I, k)
    IN  IF ki.err # NoErr THEN ki.err ELSE DecodeValue(I, ki.item, d[k]).err

\* C16: every error of a codec or of the engine during Get, First, Last or
\* Iterate is returned by the operation; whatever error a decoder returns on
\* an entry inside the scan prefix, Iterate returns an error and does not end
\* as a successful iteration.
C16_NoErrorSwallowed ==
    /\ (last.op = "Get" /\ encodeKeyFunc(last.idx, last.item).err = NoErr) =>
          LET k == encodeKeyFunc(last.idx, last.item).key
          IN  IF k \notin DOMAIN db THEN last.err = ErrNotFound
              ELSE last.err = DecodeValue(last.idx, last.item, db[k]).err
    /\ last.op \in {"First", "Last"} =>
          LET r == IF last.op = "First" THEN dbFirst(db, IndexPrefix(last.idx) \o last.p)
                   ELSE dbLast(db, IndexPrefix(last.idx) \o last.p)
          IN  IF r.err # NoErr THEN last.err = r.err
              ELSE last.err = DecodeErrorOf(last.idx, db, r.key)
    /\ (it.state = "done" /\ ~ItStartOk) => it.err # NoErr
    /\ (ItRanOut /\ Len(it.calls) < RunLength(ItScan, ItScanPrefix)) =>
          /\ DecodeErrorOf(it.idx, it.snap, ItScan[Len(it.calls) + 1]) # NoErr
          /\ it.err # NoErr

(***************************************************************************)
(* Item.Merge and incByteSlice on their own: the arguments are drawn in    *)
(* the initial state and the call is one step.                             *)
(***************************************************************************)
\* the receivers of Merge: every field zero or set, the byte slices also
\* empty and not nil
MergeReceivers ==
    [Address : {Nil, Some(<<>>), Some(<<1>>)}, Data : {Nil, Some(<<>>), Some(<<1>>)},
     AccessTimestamp : {0, 1}, StoreTimestamp : {0, 1}, BinID : {0, 1},
     PinCounter : {0, 1}, Tag : {0, 1}]

\* the arguments of Merge: every field zero or set to a value no receiver has
MergeArguments ==
    [Address : {Nil, Some(<<2>>)}, Data : {Nil, Some(<<2>>)},
     AccessTimestamp : {0, 2}, StoreTimestamp : {0, 2}, BinID : {0, 2},
     PinCounter : {0, 2}, Tag : {0, 2}]

InitMerge ==
    /\ InitShed
    /\ InitTrojan
    /\ \E a \in MergeReceivers, b \in MergeArguments :
          last = [Call("call Merge", 0, a, <<>>, ZeroItem, 0, FALSE, NoErr)
                    EXCEPT !.items = <<b>>]

\* new := i.Merge(i2): item is i, items[1] is i2, out is new
MergeCall ==
    /\ last.op = "call Merge"
    /\ last' = [last EXCEPT !.op = "Merge", !.out = Merge(last.item, last.items[1])]
    /\ UNCHANGED <<db, batch, it, txn, nPut, nDel, trojanVars>>

SpecMerge == InitMerge /\ [][MergeCall]_vars

\* C18: a.Merge(b) is a on every field where a is set and b on every field
\* where a is zero or nil, for each of the seven fields, and the call leaves a
\* and b as they are.
C18_MergeLaw ==
    /\ [](last.op = "Merge" =>
            LET a == last.item
                b == last.items[1]
                new == last.out
            IN  /\ new.Address = Either(a.Address, b.Address, Nil)
                /\ new.Data = Either(a.Data, b.Data, Nil)
                /\ new.AccessTimestamp = Either(a.AccessTimestamp, b.AccessTimestamp, 0)
                /\ new.StoreTimestamp = Either(a.StoreTimestamp, b.StoreTimestamp, 0)
                /\ new.BinID = Either(a.BinID, b.BinID, 0)
                /\ new.PinCounter = Either(a.PinCounter, b.PinCounter, 0)
                /\ new.Tag = Either(a.Tag, b.Tag, 0))
    /\ [][last'.item = last.item /\ last'.items = last.items]_vars

\* a Merge of a receiver with an empty address and no tag and an argument
\* with an address and a tag
C18_Witness ==
    /\ last.op = "Merge"
    /\ last.item.Address = Some(<<>>) /\ last.items[1].Address = Some(<<2>>)
    /\ last.item.Tag = 0 /\ last.items[1].Tag = 2
    /\ last.out.Address = Some(<<>>) /\ last.out.Tag = 2

\* the bytes the slices handed to incByteSlice are made of
ByteSamples == {0, 1, 254, 255}

\* the slices handed to incByteSlice
ByteSlices ==
    {<<>>} \cup {<<x>> : x \in ByteSamples} \cup {<<x, y>> : x, y \in ByteSamples}
    \cup {<<x, y, z>> : x, y, z \in ByteSamples}

InitInc ==
    /\ InitShed
    /\ InitTrojan
    /\ \E b \in ByteSlices :
          last = Call("call incByteSlice", 0, ZeroItem, b, ZeroItem, 0, FALSE, NoErr)

\* next := incByteSlice(b): p is b, res is next
IncCall ==
    /\ last.op = "call incByteSlice"
    /\ last' = [last EXCEPT !.op = "incByteSlice", !.res = incByteSlice(last.p)]
    /\ UNCHANGED <<db, batch, it, txn, nPut, nDel, trojanVars>>

SpecInc == InitInc /\ [][IncCall]_vars

\* the slices of length n made of the sample bytes and their successors
Candidates(n) == [1..n -> ByteSamples \cup {x + 1 : x \in ByteSamples \ {255}}]

\* C19: for b with a byte other than 0xFF, incByteSlice(b) has the length of
\* b, is greater than b and is the smallest slice of that length greater than
\* b: the last byte other than 0xFF is incremented and the bytes after it are
\* zero; incByteSlice(b) is nil exactly when every byte of b is 0xFF; b is
\* left as it is.
C19_ByteSliceSuccessor ==
    /\ [](last.op = "incByteSlice" =>
            LET b == last.p
                next == last.res
                allFF == \A i \in 1..Len(b) : b[i] = 255
            IN  /\ next = <<>> <=> allFF
                /\ ~allFF =>
                      /\ Len(next) = Len(b)
                      /\ BytesLess(b, next)
                      /\ \A c \in Candidates(Len(b)) : BytesLess(b, c) => BytesLeq(next, c)
                      /\ \E j \in 1..Len(b) :
                            /\ b[j] # 255 /\ next[j] = b[j] + 1
                            /\ \A i \in 1..Len(b) :
                                  /\ i < j => next[i] = b[i]
                                  /\ i > j => (b[i] = 255 /\ next[i] = 0))
    /\ [][last'.p = last.p]_vars

\* incByteSlice(0x01 0xFF) = 0x02 0x00
C19_Witness ==
    /\ last.op = "incByteSlice"
    /\ last.p = <<1, 255>>
    /\ last.res = <<2, 0>>

(***************************************************************************)
(* Package trojan: the Registry of decoders and handlers.  A Decoder and a *)
(* Handler are interfaces; the decoders are the fooWrapper of the tests    *)
(* and one that takes every chunk that has a topic, the handlers record    *)
(* what they are handed.                                                   *)
(***************************************************************************)
\* largest number of decoders in a Registry
MaxDecoders == 2
\* largest number of handlers of one topic
MaxHandlers == 2

\* trojan.TopicSize, cut to one byte
TopicSize == 1

\* length of the checksum that fooWrapper appends (4 bytes of crc32 in the
\* tests, one byte here)
SumSize == 1

\* stands for crc32.Checksum: the sum of the bytes
RECURSIVE Checksum(_)
Checksum(b) == IF b = <<>> THEN 0 ELSE (Head(b) + Checksum(Tail(b))) % 256

NoEnvelope == [topic |-> 0, payload |-> <<>>]

\* fooWrapper.Decode
fooWrapperDecode(b) ==
    IF Len(b) < TopicSize + SumSize THEN [envelope |-> NoEnvelope, ok |-> FALSE]
    ELSE LET rightIndex == Len(b) - SumSize
         IN  IF <<Checksum(SubSeq(b, 1, rightIndex))>> # SubSeq(b, rightIndex + 1, Len(b))
             THEN [envelope |-> NoEnvelope, ok |-> FALSE]
             ELSE [envelope |-> [topic |-> b[1],
                                 payload |-> SubSeq(b, TopicSize + 1, rightIndex)],
                   ok |-> TRUE]

\* a Decoder that takes every chunk long enough to hold a topic
topicWrapperDecode(b) ==
    IF Len(b) < TopicSize THEN [envelope |-> NoEnvelope, ok |-> FALSE]
    ELSE [envelope |-> [topic |-> b[1], payload |-> SubSeq(b, TopicSize + 1, Len(b))],
          ok |-> TRUE]

Decoders == {"fooWrapper", "topicWrapper"}

\* Decoder.Decode
Decode(d, b) == IF d = "fooWrapper" THEN fooWrapperDecode(b) ELSE topicWrapperDecode(b)

Handlers == {"h1", "h2"}

\* the data of the chunks handed to Process
ChunkData == {<<>>, <<1, 7, 8>>, <<2, 7, 7>>, <<2, 2>>, <<3, 3>>}

\* r.handlers[topic]: nil for a topic that has no handler
HandlersOf(hs, topic) == IF topic \in DOMAIN hs THEN hs[topic] ELSE <<>>

\* the handlers of a topic invoked last first
HandleCallsReversed(hl, payload) ==
    [j \in 1..Len(hl) |-> [op |-> "Handle", by |-> hl[Len(hl) + 1 - j], arg |-> payload]]

\* Registry.Process, the inner loop: h.Handle(envelope.Payload) for every
\* handler of the topic
HandleCalls(hl, payload) ==
    [j \in 1..Len(hl) |-> [op |-> "Handle", by |-> hl[j], arg |-> payload]]

\* Registry.Process, the outer loop from decoder i on: the invocations made
RECURSIVE ProcessFrom(_, _, _, _)
ProcessFrom(decs, hs, data, i) ==
    IF i > Len(decs) THEN <<>>
    ELSE LET r == Decode(decs[i], data)
         IN  <<[op |-> "Decode", by |-> decs[i], arg |-> data]>>
             \o (IF r.ok
                 THEN HandleCalls(HandlersOf(hs, r.envelope.topic), r.envelope.payload)
                 ELSE <<>>)
             \o ProcessFrom(decs, hs, data, i + 1)

\* Registry.AddDecoder
AddDecoder(d) ==
    /\ Len(decoders) < MaxDecoders
    /\ decoders' = Append(decoders, d)
    /\ last' = Call("AddDecoder", 0, ZeroItem, <<>>, ZeroItem, 0, FALSE, NoErr)
    /\ UNCHANGED <<db, batch, it, txn, nPut, nDel>>
    /\ UNCHANGED <<handlers, calls, targets, pc, mineC, doneC, ctx, run>>

\* Registry.AddHandlers
AddHandlers(topic, hl) ==
    /\ Len(handlers[topic]) + Len(hl) <= MaxHandlers
    /\ handlers' = [handlers EXCEPT ![topic] = handlers[topic] \o hl]
    /\ last' = Call("AddHandlers", 0, ZeroItem, <<>>, ZeroItem, 0, FALSE, NoErr)
    /\ UNCHANGED <<db, batch, it, txn, nPut, nDel>>
    /\ UNCHANGED <<decoders, calls, targets, pc, mineC, doneC, ctx, run>>

\* Registry.Process: p is the data of the chunk, calls the invocations made
Process(data) ==
    /\ calls' = ProcessFrom(decoders, handlers, data, 1)
    /\ last' = Call("Process", 0, ZeroItem, data, ZeroItem, 0, FALSE, NoErr)
    /\ UNCHANGED <<db, batch, it, txn, nPut, nDel>>
    /\ UNCHANGED <<decoders, handlers, targets, pc, mineC, doneC, ctx, run>>

\* the arguments of one AddHandlers call
HandlerLists ==
    {<<h>> : h \in Handlers} \cup {<<h, g>> : h \in Handlers, g \in Handlers}

NextRegistry ==
    \/ \E d \in Decoders : AddDecoder(d)
    \/ \E topic \in Topics, hl \in HandlerLists : AddHandlers(topic, hl)
    \/ \E data \in ChunkData : Process(data)

SpecRegistry == Init /\ [][NextRegistry]_vars

\* the positions of calls at which a decoder was run
DecodeAt == {q \in 1..Len(calls) : calls[q].op = "Decode"}

\* the position of the i-th decoder run
DecodePos(i) ==
    CHOOSE q \in DecodeAt : Cardinality({x \in DecodeAt : x <= q}) = i

\* the invocations made after the i-th decoder run and before the next one
HandledAfter(i) ==
    LET from == DecodePos(i) + 1
        to == IF i < Cardinality(DecodeAt) THEN DecodePos(i + 1) - 1 ELSE Len(calls)
    IN  SubSeq(calls, from, to)

\* C22: Process runs every registered decoder on the data of the chunk in the
\* order the decoders were added; after a decoder that accepts the data every
\* handler registered for the decoded topic is invoked once per registration
\* with the decoded payload, in the order the handlers were added; no other
\* handler is invoked, and none when no decoder accepts the data.
C22_RegistryDispatch ==
    last.op = "Process" =>
        /\ Cardinality(DecodeAt) = Len(decoders)
        /\ calls # <<>> => calls[1].op = "Decode"
        /\ \A i \in 1..Len(decoders) :
              LET r == Decode(decoders[i], last.p)
                  hl == HandlersOf(handlers, r.envelope.topic)
                  got == HandledAfter(i)
              IN  /\ calls[DecodePos(i)] = [op |-> "Decode", by |-> decoders[i], arg |-> last.p]
                  /\ ~r.ok => got = <<>>
                  /\ r.ok =>
                        /\ Len(got) = Len(hl)
                        /\ \A j \in 1..Len(hl) :
                              got[j] = [op |-> "Handle", by |-> hl[j], arg |-> r.envelope.payload]
        /\ (\A i \in 1..Len(decoders) : ~Decode(decoders[i], last.p).ok) =>
              \A q \in 1..Len(calls) : calls[q].op # "Handle"

\* a chunk that both decoders accept with different payloads, processed with
\* two different handlers for its topic and a handler for another topic
C22_Witness ==
    /\ last.op = "Process"
    /\ decoders = <<"fooWrapper", "topicWrapper">>
    /\ Decode("fooWrapper", last.p).ok
    /\ Decode("fooWrapper", last.p).envelope.payload
          # Decode("topicWrapper", last.p).envelope.payload
    /\ handlers[1] = <<"h2", "h1">>
    /\ handlers[2] # <<>>
    /\ Len(calls) = 6
    /\ calls[2].arg # calls[5].arg

(***************************************************************************)
(* Package trojan: Miner.Run.  Run starts one goroutine per target and     *)
(* waits in a select for a chunk on the unbuffered channel m.mineC or for  *)
(* the end of the context.  mineC holds the goroutines blocked in          *)
(* `m.mineC <- ch`, in the order of their arrival.                         *)
(***************************************************************************)
\* largest number of targets of one Run
MaxTargets == 3

\* ctx.Err()
ErrCanceled == "context canceled"

CtxErr(c) == IF c = "cancelled" THEN ErrCanceled ELSE NoErr

Envelopes == {[topic |-> 1, payload |-> <<7>>], [topic |-> 2, payload |-> <<>>]}

\* Envelope.Bytes
Bytes(e) == <<e.topic>> \o e.payload

Target == <<0>>

\* Targets of up to MaxTargets entries
TargetLists == {[g \in 1..n |-> Target] : n \in 0..MaxTargets}

\* a targetMatches that matches no address
targetMatchesNever(target, address) == FALSE

\* targetMatches (placeholder of the source: every address matches)
targetMatches(target, address) == TRUE

\* mine (placeholder of the source: a mock address and the data "bar")
mine(nonce, payload) == [addr |-> <<0>>, data |-> <<98, 97, 114>>]

\* Miner.Run up to its select: the channels are made and one goroutine per
\* target is started
RunBegin(envelope, tl) ==
    /\ run.state = "idle"
    /\ run' = [NoRun EXCEPT !.state = "select", !.payload = Bytes(envelope)]
    /\ mineC' = <<>>
    /\ doneC' = "open"
    /\ targets' = tl
    /\ pc' = [g \in 1..Len(tl) |-> "mine"]
    /\ UNCHANGED <<shedVars, decoders, handlers, calls, ctx>>

\* the goroutine of target g: it mines and, as the target matches, blocks in
\* the send on m.mineC; with no match it would pass the select with its
\* default case and return
Goroutine(g) ==
    /\ g \in DOMAIN pc
    /\ pc[g] = "mine"
    /\ LET ch == mine(<<0>>, run.payload)
       IN  IF targetMatches(targets[g], ch.addr)
           THEN /\ mineC' = Append(mineC, [g |-> g, ch |-> ch])
                /\ pc' = [pc EXCEPT ![g] = "send"]
           ELSE /\ pc' = [pc EXCEPT ![g] = "done"]
                /\ UNCHANGED mineC
    /\ UNCHANGED <<shedVars, decoders, handlers, calls, targets, doneC, ctx, run>>

\* select case ch := <-m.mineC: the first blocked sender hands over its
\* chunk and returns, Run closes doneC and returns the chunk
RunReceive ==
    /\ run.state = "select"
    /\ mineC # <<>>
    /\ mineC' = Tail(mineC)
    /\ pc' = [pc EXCEPT ![Head(mineC).g] = "done"]
    /\ doneC' = "closed"
    /\ run' = [run EXCEPT !.state = "returned", !.ch = Head(mineC).ch, !.err = NoErr]
    /\ UNCHANGED <<shedVars, decoders, handlers, calls, targets, ctx>>

\* select case <-ctx.Done(): Run returns ctx.Err()
RunCtxDone ==
    /\ run.state = "select"
    /\ ctx = "cancelled"
    /\ run' = [run EXCEPT !.state = "returned", !.ch = NoChunk, !.err = CtxErr(ctx)]
    /\ UNCHANGED <<shedVars, decoders, handlers, calls, targets, pc, mineC, doneC, ctx>>

\* the caller cancels the context, before or during Run
Cancel ==
    /\ ctx = "live"
    /\ ctx' = "cancelled"
    /\ UNCHANGED <<shedVars, decoders, handlers, calls, targets, pc, mineC, doneC, run>>

NextMiner ==
    \/ \E envelope \in Envelopes, tl \in TargetLists : RunBegin(envelope, tl)
    \/ \E g \in 1..MaxTargets : Goroutine(g)
    \/ RunReceive
    \/ RunCtxDone
    \/ Cancel

SpecMiner == Init /\ [][NextMiner]_vars

\* the scheduler runs every goroutine that can take a step, Run included;
\* nothing makes the caller cancel the context
SpecMinerLive ==
    /\ SpecMiner
    /\ \A g \in 1..MaxTargets : WF_vars(Goroutine(g))
    /\ WF_vars(RunReceive \/ RunCtxDone)

(***************************************************************************)
(* Properties of Miner.Run.                                                *)
(***************************************************************************)
Waiting == run.state = "select"

Returned == run.state = "returned"

ReturnedChunk ==
    /\ Returned
    /\ run.ch = mine(<<0>>, run.payload)
    /\ run.ch # NoChunk
    /\ run.err = NoErr

ReturnedCtxErr == Returned /\ run.ch = NoChunk /\ run.err = ErrCanceled

\* Run returns a chunk with a nil error or a nil chunk with the error of the
\* context
RunResultShape == Returned => (ReturnedChunk \/ (ReturnedCtxErr /\ ctx = "cancelled"))

\* with a target and a context that is not cancelled Run returns a chunk
RunDelivers ==
    (Waiting /\ targets # <<>> /\ ctx = "live") ~> (ReturnedChunk \/ ctx = "cancelled")

\* a Run whose context is cancelled returns
RunEndsWhenCancelled == (Waiting /\ ctx = "cancelled") ~> Returned

\* the step in which Run returns
RunReturns == Waiting /\ run'.state = "returned"

\* a Run whose context is cancelled returns the error of the context
CancelledGivesCtxErr == (RunReturns /\ ctx = "cancelled") => run'.err = ErrCanceled

\* a Run whose context is cancelled while no goroutine is blocked in its send
\* returns the error of the context
CancelledAloneGivesCtxErr ==
    (RunReturns /\ ctx = "cancelled" /\ mineC = <<>>) => run'.err = ErrCanceled

\* a chunk that Run returns is the chunk of the goroutine that came first to
\* its send
ChunkIsFirstSent ==
    (RunReturns /\ run'.err = NoErr) => (mineC # <<>> /\ run'.ch = Head(mineC).ch)

\* a Run with no target whose context is cancelled returns the error of the
\* context
NoTargetGivesCtxErr ==
    (Waiting /\ targets = <<>> /\ ctx = "cancelled") ~> ReturnedCtxErr

\* C23 as stated: Run returns a chunk with a nil error or a nil chunk with the
\* error of the context; with a target and a context never cancelled it
\* eventually returns a chunk mined for the envelope; with a context cancelled
\* before a goroutine has delivered its chunk it returns the error of the
\* context.
C23_RunOutcome ==
    /\ [](RunResultShape)
    /\ RunDelivers
    /\ RunEndsWhenCancelled
    /\ [][CancelledGivesCtxErr]_vars

\* C23: Run returns a chunk with a nil error or a nil chunk with the error of
\* the context; with a target and a context never cancelled it eventually
\* returns a chunk mined for the envelope; with a cancelled context it
\* eventually returns, with the error of the context when no goroutine is
\* blocked in its send at that moment (so always with no target), and
\* otherwise with that error or with the chunk of the first blocked goroutine.
C23_RunOutcomeAmended ==
    /\ [](RunResultShape)
    /\ RunDelivers
    /\ RunEndsWhenCancelled
    /\ NoTargetGivesCtxErr
    /\ [][CancelledAloneGivesCtxErr /\ ChunkIsFirstSent]_vars

\* Run has returned the chunk of a goroutine although its context had been
\* cancelled before
C23_Witness ==
    /\ ReturnedChunk
    /\ ctx = "cancelled"
    /\ Len(targets) = 2

\* C24: after Run has returned, every goroutine it started terminates; none
\* stays blocked in its send on the result channel.
C24_GoroutinesTerminate ==
    Returned ~> (\A g \in DOMAIN pc : pc[g] = "done")
====
